---- MODULE Spec2Model ----
(***************************************************************************)
(* A model of gittyeric/differential-privacy: the privatize() handle with  *)
(* its privacy budget (privatize.ts), the bounded-concurrency sensitivity  *)
(* estimator (sensitivity.ts) and the array shadow-view adapter            *)
(* (datastructures.ts).                                                    *)
(*                                                                         *)
(* JavaScript runs one callback to completion before the next one starts.  *)
(* The variable "running" holds the invocation that is executing           *)
(* synchronously (0 when the event loop is idle); an await releases it.    *)
(***************************************************************************)
EXTENDS Integers, Sequences, FiniteSets, TLC

\* ------------------------------------------------------------------ bounds
MaxEpsilonBound == 5
MaxCallCountBound == 3
MaxCalls == 4
MaxInFlight == 2
MaxLen == 3
MaxCap == 2
MaxMutations == 1
MaxPastEnd == 2
MaxTime == 5
MaxDefaultLen == 5
MaxSensitivity == 3

\* ------------------------------------------------- decimal.js arithmetic
\* Decimal.set({ precision: 25, rounding: 4 }): 25 significant digits,
\* rounding mode 4 = ROUND_HALF_UP.
Precision == 25

\* A non-negative Decimal is [d |-> digits, e |-> exponent] with value
\* d[1].d[2]d[3]... * 10^e, no leading and no trailing zero digit;
\* zero is the empty digit sequence.
Zero == [d |-> <<>>, e |-> 0]

Max2(a, b) == IF a >= b THEN a ELSE b
Min2(a, b) == IF a <= b THEN a ELSE b

\* the digit of x of weight 10^w
Digit(x, w) ==
    LET i == x.e - w + 1
    IN IF i >= 1 /\ i <= Len(x.d) THEN x.d[i] ELSE 0

\* the weight of the last digit of x
Low(x) == x.e - Len(x.d) + 1

RECURSIVE StripTrail(_)
StripTrail(ds) ==
    IF ds # <<>> /\ ds[Len(ds)] = 0
    THEN StripTrail(SubSeq(ds, 1, Len(ds) - 1))
    ELSE ds

RECURSIVE Normalize(_, _)
Normalize(ds, e) ==
    IF ds = <<>> THEN Zero
    ELSE IF ds[1] = 0 THEN Normalize(Tail(ds), e - 1)
    ELSE [d |-> StripTrail(ds), e |-> e]

RECURSIVE AddFrom(_, _, _, _, _)
AddFrom(a, b, w, hi, carry) ==
    IF w > hi
    THEN IF carry = 0 THEN <<>> ELSE <<carry>>
    ELSE LET s == Digit(a, w) + Digit(b, w) + carry
         IN AddFrom(a, b, w + 1, hi, s \div 10) \o <<s % 10>>

\* a + b, exact
ExactPlus(a, b) ==
    IF a.d = <<>> THEN b
    ELSE IF b.d = <<>> THEN a
    ELSE LET lo == Min2(Low(a), Low(b))
             hi == Max2(a.e, b.e)
             ds == AddFrom(a, b, lo, hi, 0)
         IN Normalize(ds, lo + Len(ds) - 1)

\* round x to Precision significant digits, half up
finalise(x) ==
    IF Len(x.d) <= Precision THEN x
    ELSE LET kept == Normalize(SubSeq(x.d, 1, Precision), x.e)
             ulp  == [d |-> <<1>>, e |-> x.e - Precision + 1]
         IN IF x.d[Precision + 1] >= 5 THEN ExactPlus(kept, ulp) ELSE kept

\* Decimal.prototype.plus
plus(a, b) == finalise(ExactPlus(a, b))

RECURSIVE IntDigits(_)
IntDigits(n) ==
    IF n = 0 THEN <<>> ELSE IntDigits(n \div 10) \o <<n % 10>>

\* new Decimal(n) for a non-negative integer n
FromInt(n) == Normalize(IntDigits(n), Len(IntDigits(n)) - 1)

One == FromInt(1)

\* the digits after the decimal point of r / k (0 <= r < k), until "need"
\* significant digits were produced or the division ends
RECURSIVE FracDigits(_, _, _, _)
FracDigits(r, k, need, started) ==
    IF r = 0 \/ need <= 0 THEN <<>>
    ELSE LET q  == (r * 10) \div k
             st == started \/ q # 0
         IN <<q>> \o FracDigits((r * 10) % k, k, IF st THEN need - 1 ELSE need, st)

\* new Decimal(n).dividedBy(k) for integers n >= 0, k >= 1
dividedBy(n, k) ==
    LET ip == IntDigits(n \div k)
        fr == FracDigits(n % k, k, Precision + 1 - Len(ip), ip # <<>>)
    IN finalise(Normalize(ip \o fr, Len(ip) - 1))

RECURSIVE DigitsGreater(_, _, _)
DigitsGreater(a, b, i) ==
    IF i > Len(a.d) THEN FALSE
    ELSE IF i > Len(b.d) THEN TRUE
    ELSE IF a.d[i] # b.d[i] THEN a.d[i] > b.d[i]
    ELSE DigitsGreater(a, b, i + 1)

\* Decimal.prototype.greaterThan
greaterThan(a, b) ==
    IF a.d = <<>> THEN FALSE
    ELSE IF b.d = <<>> THEN TRUE
    ELSE IF a.e # b.e THEN a.e > b.e
    ELSE DigitsGreater(a, b, 1)

\* A JavaScript number carries 53 bits, which fix 17 significant decimal digits;
\* it is modelled as a decimal of that many digits.
DoubleDigits == 17

\* Decimal.prototype.toNumber: the nearest number
toNumber(x) ==
    IF Len(x.d) <= DoubleDigits THEN x
    ELSE LET kept == Normalize(SubSeq(x.d, 1, DoubleDigits), x.e)
             ulp  == [d |-> <<1>>, e |-> x.e - DoubleDigits + 1]
         IN IF x.d[DoubleDigits + 1] >= 5 THEN ExactPlus(kept, ulp) ELSE kept

\* n / k in JavaScript numbers, for integers n >= 0, k >= 1
NumberDivide(n, k) == toNumber(dividedBy(n, k))

\* k exact additions of x
RECURSIVE ExactTimes(_, _)
ExactTimes(x, k) == IF k = 0 THEN Zero ELSE ExactPlus(ExactTimes(x, k - 1), x)

\* k rounded additions of x, as a counter that starts at 0 accumulates them
RECURSIVE PlusTimes(_, _)
PlusTimes(x, k) == IF k = 0 THEN Zero ELSE plus(PlusTimes(x, k - 1), x)

\* ------------------------------------------------------- output numbers
\* The Decimal values the estimator keeps: an integer, +-Infinity or NaN.
Num(n) == [nan |-> FALSE, inf |-> 0, n |-> n]
POSITIVE_INFINITY == [nan |-> FALSE, inf |-> 1, n |-> 0]
NEGATIVE_INFINITY == [nan |-> FALSE, inf |-> -1, n |-> 0]
NaN == [nan |-> TRUE, inf |-> 0, n |-> 0]

NumLess(a, b) ==
    /\ ~a.nan /\ ~b.nan
    /\ \/ a.inf < b.inf
       \/ a.inf = 0 /\ b.inf = 0 /\ a.n < b.n

\* mutant: the accumulator keeps the output that completed last
DecimalMinLast(a, b) == b

\* Decimal.min, Decimal.max
DecimalMin(a, b) == IF a.nan \/ b.nan THEN NaN ELSE IF NumLess(b, a) THEN b ELSE a
DecimalMax(a, b) == IF a.nan \/ b.nan THEN NaN ELSE IF NumLess(a, b) THEN b ELSE a

\* Decimal.prototype.minus
minus(a, b) ==
    IF a.nan \/ b.nan THEN NaN
    ELSE IF a.inf # 0 /\ a.inf = b.inf THEN NaN
    ELSE IF a.inf # 0 THEN a
    ELSE IF b.inf # 0 THEN [b EXCEPT !.inf = -b.inf]
    ELSE Num(a.n - b.n)

\* ------------------------------------------------------------------ views
\* An optional value is a sequence of length 0 (undefined) or 1.
Undefined == <<>>
Some(v) == <<v>>

NoIgnore == -1

\* newArrayView(srcArray); indices are 0-based as in the source
newArrayView(srcArray) == [type |-> "array", srcArray |-> srcArray, ignoreIndex |-> NoIgnore]

\* newIgnoreIndexArrayView(newArrayView(srcArray), ignoreIndex)
newIgnoreIndexArrayView(view, ignoreIndex) ==
    [type |-> "array", srcArray |-> view.srcArray, ignoreIndex |-> ignoreIndex]

\* newKeyValueView(srcKeyVals); an object is the sequence of its [key, val]
\* properties in enumeration order, the keys distinct
newKeyValueView(srcKeyVals) ==
    [type |-> "kv", srcKeyVals |-> srcKeyVals, ignoreKey |-> Undefined]

\* newIgnoreKeyKeyValueView(newKeyValueView(srcKeyVals), ignoreKey)
newIgnoreKeyKeyValueView(view, ignoreKey) ==
    [type |-> "kv", srcKeyVals |-> view.srcKeyVals, ignoreKey |-> Some(ignoreKey)]

\* the (el, index) pairs an array view's forEach hands to its callback, in order
RECURSIVE ArrayForEachFrom(_, _)
ArrayForEachFrom(view, index) ==
    IF index >= Len(view.srcArray) THEN <<>>
    ELSE IF view.ignoreIndex = NoIgnore
    THEN <<[el |-> view.srcArray[index + 1], index |-> index]>>
         \o ArrayForEachFrom(view, index + 1)
    ELSE IF index # view.ignoreIndex
    THEN <<[el |-> view.srcArray[index + 1],
            index |-> index - (IF index >= view.ignoreIndex THEN 1 ELSE 0)]>>
         \o ArrayForEachFrom(view, index + 1)
    ELSE ArrayForEachFrom(view, index + 1)

\* the (el, index) pairs a key-value view's forEach hands to its callback
RECURSIVE KeyValueForEachFrom(_, _)
KeyValueForEachFrom(view, i) ==
    IF i > Len(view.srcKeyVals) THEN <<>>
    ELSE IF view.ignoreKey = Undefined \/ Some(view.srcKeyVals[i].key) # view.ignoreKey
    THEN <<[el |-> view.srcKeyVals[i].val, index |-> view.srcKeyVals[i].key]>>
         \o KeyValueForEachFrom(view, i + 1)
    ELSE KeyValueForEachFrom(view, i + 1)

forEach(view) ==
    IF view.type = "array" THEN ArrayForEachFrom(view, 0) ELSE KeyValueForEachFrom(view, 1)

\* mutant: the index of the element left out is not stepped over
ArrayGetOffByOne(view, index) ==
    LET trueIndex == IF view.ignoreIndex = NoIgnore THEN index
                     ELSE IF index <= view.ignoreIndex THEN index ELSE index + 1
    IN IF trueIndex \in 0..Len(view.srcArray) - 1
       THEN Some(view.srcArray[trueIndex + 1]) ELSE Undefined

\* view.get(index) of an array view, 0-based; an index outside the array gives undefined
ArrayGet(view, index) ==
    LET trueIndex == IF view.ignoreIndex = NoIgnore THEN index
                     ELSE IF index < view.ignoreIndex THEN index ELSE index + 1
    IN IF trueIndex \in 0..Len(view.srcArray) - 1
       THEN Some(view.srcArray[trueIndex + 1]) ELSE Undefined

\* view.get(index) of a key-value view: srcKeyVals[index]; the view that ignores
\* a key hands the call to the view it wraps
KeyValueGet(view, index) ==
    IF \E i \in 1..Len(view.srcKeyVals) : view.srcKeyVals[i].key = index
    THEN Some(view.srcKeyVals[CHOOSE i \in 1..Len(view.srcKeyVals) :
                                  view.srcKeyVals[i].key = index].val)
    ELSE Undefined

get(view, index) ==
    IF view.type = "array" THEN ArrayGet(view, index) ELSE KeyValueGet(view, index)

\* view.map((el) => el)
mapIdentity(view) == [i \in 1..Len(forEach(view)) |-> forEach(view)[i].el]

\* the sensitive function of the tests: sumFunction
RECURSIVE SumEls(_)
SumEls(pairs) == IF pairs = <<>> THEN 0 ELSE Head(pairs).el + SumEls(Tail(pairs))

sumFunction(view) == SumEls(forEach(view))

\* ------------------------------------------------------- shadow iterators
\* newArrayViewSubsetIterator(dataset): one snapshot, index = -1
newArrayViewSubsetIterator(view) ==
    [kind |-> "array", index |-> -1, dataCopy |-> mapIdentity(view)]

\* newKeyValueViewSubsetIterator(dataset): one snapshot, index = -1
newKeyValueViewSubsetIterator(view) ==
    [kind |-> "kv", index |-> -1,
     dataCopy |-> [i \in 1..Len(forEach(view)) |->
                      [key |-> forEach(view)[i].index, val |-> forEach(view)[i].el]]]

\* a caller-supplied iterator in the style of examples/custom-mysql.ts: every
\* shadow comes with done = false, the end is a separate item without value
newSqlLikeShadowIterator(view) ==
    [kind |-> "sql", index |-> 0, dataCopy |-> mapIdentity(view)]

\* a caller-supplied Iterator<DATASET | undefined> whose second item has no
\* value and done = false; its other items are those of the iterator above
newGapShadowIterator(view) ==
    [kind |-> "gap", index |-> 0, dataCopy |-> mapIdentity(view)]

\* options.newShadowIterator(dataset)
newShadowIterator(kind, view) ==
    IF kind = "sql" THEN newSqlLikeShadowIterator(view)
    ELSE IF kind = "gap" THEN newGapShadowIterator(view)
    ELSE IF view.type = "array" THEN newArrayViewSubsetIterator(view)
    ELSE newKeyValueViewSubsetIterator(view)

\* the iterator after next()
IterAdvance(it) == [it EXCEPT !.index = it.index + 1]

\* mutant: done is raised one item early
ArrayNextEarlyDone(it) ==
    LET index == it.index + 1
    IN [done  |-> index >= Len(it.dataCopy) - 2,
        value |-> IF index >= Len(it.dataCopy) THEN Undefined
                  ELSE Some(newIgnoreIndexArrayView(newArrayView(it.dataCopy), index))]

\* mutant: the shadow leaves out the element after the one it should
ArrayNextWrongIndex(it) ==
    LET index == it.index + 1
    IN [done  |-> index >= Len(it.dataCopy) - 1,
        value |-> IF index >= Len(it.dataCopy) THEN Undefined
                  ELSE Some(newIgnoreIndexArrayView(newArrayView(it.dataCopy), index + 1))]

\* what next() returns, for the iterator state before the call
ArrayNext(it) ==
    LET index == it.index + 1
    IN [done  |-> index >= Len(it.dataCopy) - 1,
        value |-> IF index >= Len(it.dataCopy) THEN Undefined
                  ELSE Some(newIgnoreIndexArrayView(newArrayView(it.dataCopy), index))]

\* Object.keys(dataCopy)
ObjectKeys(keyVals) == [i \in 1..Len(keyVals) |-> keyVals[i].key]

\* mutant: done is raised one item late
KeyValueNextLateDone(it) ==
    LET index == it.index + 1
        keys == ObjectKeys(it.dataCopy)
    IN [done  |-> index >= Len(keys),
        value |-> IF index >= Len(keys) THEN Undefined
                  ELSE Some(newIgnoreKeyKeyValueView(newKeyValueView(it.dataCopy),
                                                     keys[index + 1]))]

KeyValueNext(it) ==
    LET index == it.index + 1
        keys == ObjectKeys(it.dataCopy)
    IN [done  |-> index >= Len(keys) - 1,
        value |-> IF index >= Len(keys) THEN Undefined
                  ELSE Some(newIgnoreKeyKeyValueView(newKeyValueView(it.dataCopy),
                                                     keys[index + 1]))]

SqlNext(it) ==
    LET isDone == it.index >= Len(it.dataCopy)
    IN [done  |-> isDone,
        value |-> IF isDone THEN Undefined
                  ELSE Some(newIgnoreIndexArrayView(newArrayView(it.dataCopy), it.index))]

GapNext(it) ==
    IF it.index = 1 THEN [done |-> FALSE, value |-> Undefined]
    ELSE IF it.index = 0 THEN SqlNext(it)
    ELSE SqlNext([it EXCEPT !.index = it.index - 1])

IterNext(it) ==
    IF it.kind = "array" THEN ArrayNext(it)
    ELSE IF it.kind = "kv" THEN KeyValueNext(it)
    ELSE IF it.kind = "gap" THEN GapNext(it)
    ELSE SqlNext(it)

\* ------------------------------------------------------ options of privatize
\* The JavaScript values a caller can put in the options object. A number is
\* NaN, or int (half = FALSE), or int + 1/2 (half = TRUE).
JsUndefined == [t |-> "undefined", nan |-> FALSE, int |-> 0, half |-> FALSE]
JsString == [t |-> "string", nan |-> FALSE, int |-> 0, half |-> FALSE]
JsFunction == [t |-> "function", nan |-> FALSE, int |-> 0, half |-> FALSE]
JsNaN == [t |-> "number", nan |-> TRUE, int |-> 0, half |-> FALSE]
JsNumber(n) == [t |-> "number", nan |-> FALSE, int |-> n, half |-> FALSE]
JsNumberAndHalf(n) == [t |-> "number", nan |-> FALSE, int |-> n, half |-> TRUE]

JsTrue == [t |-> "boolean", nan |-> FALSE, int |-> 1, half |-> FALSE]
JsFalse == [t |-> "boolean", nan |-> FALSE, int |-> 0, half |-> FALSE]

\* util.isNumber, util.isFunction
isNumber(v) == v.t = "number"
isFunction(v) == v.t = "function"

\* v <= 0 and v < 1 for a number v; a comparison with NaN is false
LessOrEqualZero(v) == ~v.nan /\ (v.int < 0 \/ (v.int = 0 /\ ~v.half))
LessThanOne(v) == ~v.nan /\ v.int < 1

\* mutant: the concurrency option is not validated
validateOptionsNoCapCheck(o) ==
    IF ~isNumber(o.maxEpsilon) \/ LessOrEqualZero(o.maxEpsilon)
    THEN "maxEpsilon must be a number > 0"
    ELSE IF ~isFunction(o.newShadowIterator)
    THEN "Must provide a newShadowIterator function, please see docs"
    ELSE IF o.maxCallCount # JsUndefined
            /\ (~isNumber(o.maxCallCount) \/ LessThanOne(o.maxCallCount))
    THEN "Please get a valid integer >= 1 for maxCallCount"
    ELSE ""

\* validateOptions(options): the message of the Error it throws, "" when it returns
validateOptions(o) ==
    IF ~isNumber(o.maxEpsilon) \/ LessOrEqualZero(o.maxEpsilon)
    THEN "maxEpsilon must be a number > 0"
    ELSE IF ~isFunction(o.newShadowIterator)
    THEN "Must provide a newShadowIterator function, please see docs"
    ELSE IF o.maxCallCount # JsUndefined
            /\ (~isNumber(o.maxCallCount) \/ LessThanOne(o.maxCallCount))
    THEN "Please get a valid integer >= 1 for maxCallCount"
    ELSE IF o.maxConcurrentCalls # JsUndefined
            /\ (~isNumber(o.maxConcurrentCalls) \/ LessThanOne(o.maxConcurrentCalls))
    THEN "Please give a valid integer >= 1 for maxConcurrentCalls"
    ELSE ""

\* mutant: any truthy value of the option counts as true
Truthy(v) ==
    /\ v.t # "undefined"
    /\ v # JsFalse
    /\ ~(v.t = "number" /\ (v.nan \/ (v.int = 0 /\ ~v.half)))

\* v === true
StrictlyTrue(v) == v = JsTrue

\* validateOptions(options): the parsed options it returns when it does not throw
parsedOptions(o) ==
    [maxEpsilon |-> o.maxEpsilon,
     newShadowIterator |-> o.newShadowIterator,
     maxCallCount |-> o.maxCallCount,
     maxConcurrentCalls |-> o.maxConcurrentCalls,
     debugDangerously |-> IF StrictlyTrue(o.debugDangerously) THEN JsTrue ELSE JsUndefined]

\* fillDefaultOptions(validatedOptions)
\* mutant: other defaults for the two optional counts
fillDefaultOptionsOther(o) ==
    [maxEpsilon |-> o.maxEpsilon,
     newShadowIterator |-> o.newShadowIterator,
     maxCallCount |-> IF isNumber(o.maxCallCount) THEN o.maxCallCount ELSE JsNumber(2),
     maxConcurrentCalls |-> IF isNumber(o.maxConcurrentCalls) THEN o.maxConcurrentCalls
                            ELSE JsNumber(5),
     debugDangerously |-> IF StrictlyTrue(o.debugDangerously) THEN JsTrue ELSE JsFalse]

fillDefaultOptions(o) ==
    [maxEpsilon |-> o.maxEpsilon,
     newShadowIterator |-> o.newShadowIterator,
     maxCallCount |-> IF isNumber(o.maxCallCount) THEN o.maxCallCount ELSE JsNumber(1),
     maxConcurrentCalls |-> IF isNumber(o.maxConcurrentCalls) THEN o.maxConcurrentCalls
                            ELSE JsNumber(4),
     debugDangerously |-> IF StrictlyTrue(o.debugDangerously) THEN JsTrue ELSE JsFalse]

isInteger(v) == isNumber(v) /\ ~v.nan /\ ~v.half

\* The arithmetic of the model works on integer options: the invocations of a
\* handle are followed when its three numeric options are integers.
IntegerOptions(filled) ==
    /\ isInteger(filled.maxEpsilon)
    /\ isInteger(filled.maxCallCount)
    /\ isInteger(filled.maxConcurrentCalls)

NoOptions == [maxEpsilon |-> 0, maxCallCount |-> 0, maxConcurrentCalls |-> 0]

\* the options object of a handle with these integer options
OptionsObject(opts) ==
    [maxEpsilon |-> JsNumber(opts.maxEpsilon),
     newShadowIterator |-> JsFunction,
     maxCallCount |-> JsNumber(opts.maxCallCount),
     maxConcurrentCalls |-> JsNumber(opts.maxConcurrentCalls),
     debugDangerously |-> JsUndefined]

\* privatizeFactory(probDistFunc): the samples the distribution function may return
NoNoise == {Zero}

\* privatize(sensitiveFunction, userOptions) has returned a handle with these options
BuiltHandle(opts) ==
    [userOptions |-> OptionsObject(opts), given |-> OptionsObject(opts),
     state |-> "handle", error |-> "",
     filled |-> fillDefaultOptions(parsedOptions(OptionsObject(opts))),
     probDistFunc |-> NoNoise]

\* no call of laplaceProbDistribution is followed
NoDraw == [st |-> "none", sensitivity |-> 0, epsilon |-> 1, random |-> 0]

\* no second handle
NoOther == [built |-> FALSE, epsilonSoFar |-> Zero, outcomes |-> <<>>]

\* --------------------------------------------------------------- state
VARIABLES
    options,        \* the filled options of the handle
    epsilon,        \* maxEpsilon / maxCallCount, fixed when the handle is built
    epsilonSoFar,   \* the budget counter of the handle
    dataset,        \* the view given to every invocation
    iterKind,       \* the newShadowIterator of the options: the view's own or a custom one
    throwsOn,       \* the views the sensitive function fails on, by removed identity
    calls,          \* the invocations of the handle, by call number
    running,        \* the invocation executing synchronously, 0 for none
    adapter,        \* a caller's array or mapping, and a shadow iterator over its view
    build,          \* the call of privatize: its options object and its outcome
    now,            \* the time, counted in delays of one evaluation
    delivery,       \* which of the iterator, the shadow values and the outputs are Promises
    draw,           \* a call of laplaceProbDistribution: its arguments, its random number, its result
    other           \* a second handle, built by another call of privatize with the same arguments

vars ==
    <<options, epsilon, epsilonSoFar, dataset, iterKind, throwsOn, calls, running, adapter,
      build, now, delivery, draw, other>>

CallIds == 1..MaxCalls

\* The iterator, each shadow value and each output of the sensitive function
\* is delivered as it is or as a Promise (TRUE). The views' producers return
\* their iterator and the shadow values directly; a sensitive function that
\* returns Promises settles them at any later time.
SettledLater == [iterator |-> FALSE, value |-> FALSE, output |-> TRUE]
Deliveries == [iterator : BOOLEAN, value : BOOLEAN, output : BOOLEAN]

NoIter == [kind |-> "none", index |-> 0, dataCopy |-> <<>>]

\* no item pulled yet
NoItem == [done |-> FALSE, value |-> Undefined]

IdleCall ==
    [pc |-> "idle", iter |-> NoIter,
     minOutput |-> POSITIVE_INFINITY, maxOutput |-> NEGATIVE_INFINITY,
     pendingCalculations |-> <<>>, awaited |-> 0, curIter |-> NoItem,
     producerCalls |-> 0, pulls |-> 0, funcCalls |-> 0, noiseDraws |-> 0,
     outOfOrder |-> FALSE,
     debited |-> Zero, sensitivity |-> Undefined, sensitiveResult |-> Undefined,
     noise |-> Undefined, startedAt |-> 0, estimatedAt |-> 0,
     result |-> Undefined]

\* no array or mapping of a caller, no iterator over it
NoAdapter ==
    [backing |-> [type |-> "array", data |-> <<>>], iter |-> NoIter,
     created |-> [type |-> "array", data |-> <<>>], yielded |-> <<>>, mutations |-> 0,
     readAfterChange |-> FALSE]

\* the 0-based position of the identity a shadow view leaves out, NoIgnore for
\* a view that leaves out nothing
RemovedIdentity(view) ==
    IF view.type = "array" THEN view.ignoreIndex
    ELSE IF view.ignoreKey = Undefined THEN NoIgnore
    ELSE (CHOOSE i \in 1..Len(view.srcKeyVals) :
              view.srcKeyVals[i].key = view.ignoreKey[1]) - 1

\* the sensitive function raises on this view
Throws(view) == RemovedIdentity(view) \in throwsOn

\* mutant: a failure of the sensitive function on a shadow dataset is swallowed
EvaluationSwallowed(value) == FALSE

\* sensitivity.ts lines 63-71: runOnModifiedDataset rejects when func fails on
\* the item's value; for an absent value func is not called
EvaluationRejects(value) == value # Undefined /\ Throws(value[1])

\* mutant: an item whose value is a Promise is taken for an item without value
runOnModifiedDatasetPlainOnly(isPromise, next) ==
    IF isPromise \/ next = Undefined THEN Undefined
    ELSE Some(Num(sumFunction(next[1])))

\* sensitivity.ts lines 63-71: the output for the item's value, awaited when
\* it is a Promise; no output for an absent value
runOnModifiedDataset(isPromise, next) ==
    IF next = Undefined THEN Undefined
    ELSE Some(Num(sumFunction(next[1])))

\* With a plain value and a plain output the evaluation is settled when
\* runOnModifiedDataset returns, and the callbacks run in scheduling order;
\* with a Promise among them it settles at any later time.
SettlesInOrder == ~delivery.value /\ ~delivery.output

\* mutant: the handle reads the caller's options object at each use
BoundOptionsLive == fillDefaultOptions(parsedOptions(build.userOptions))

\* privatize.ts line 18: const options, the object the handle closes over
BoundOptions == build.filled

ActivePcs == {"estimate", "awaitIter", "pull", "awaitOldest", "awaitAll", "final"}
InFlight == Cardinality({c \in CallIds : calls[c].pc \in ActivePcs})

\* mutant: the result of plus() is dropped (a Decimal is immutable)
DebitDiscarded(spent, eps) == spent

\* line 26: epsilonSoFar = epsilonSoFar.plus(epsilon)
Debit(spent, eps) == plus(spent, eps)

\* mutant: the comparison is the wrong way round
BudgetExceededInverted(spent, maxEpsilon) == greaterThan(FromInt(maxEpsilon), spent)

\* line 27: epsilonSoFar.greaterThan(maxEpsilon)
BudgetExceeded(spent, maxEpsilon) == greaterThan(spent, FromInt(maxEpsilon))

\* mutants: the wait starts one evaluation late; the cap counts double
ConcurrencyOffByOne(maxConcurrencyCount) == Max2(1, Min2(maxConcurrencyCount, 9999)) + 1
ConcurrencyDoubled(maxConcurrencyCount) == 2 * Max2(1, Min2(maxConcurrencyCount, 9999))

\* sensitivity.ts line 24
Concurrency(maxConcurrencyCount) == Max2(1, Min2(maxConcurrencyCount, 9999))

\* mutant: the loop goes on until an item without value arrives
BreakOnAbsent(curIter) == curIter.value = Undefined

\* sensitivity.ts lines 53-55: leave the loop after this item
BreakLoop(curIter) == curIter.done

\* mutant: a failed invocation gives its debit back
RefundOnFailure(spent, eps) ==
    LET n == CHOOSE n \in 1..MaxCalls + 1 : PlusTimes(eps, n) = spent
    IN PlusTimes(eps, n - 1)

\* privatize.ts lines 31-41: a failure of the sensitive function propagates
\* through the awaits; nothing catches it and the counter is left as it is
OnFailure(spent, eps) == spent

\* mutant: the result reports what the handle has spent so far
EpsilonBudgetUsedSoFar(eps, spent) == toNumber(spent)

\* privatize.ts lines 22 and 48: epsilonBudgetUsed is epsilon.toNumber(), taken
\* when the handle is built; the counter is not read
EpsilonBudgetUsed(eps, spent) == toNumber(eps)

\* privatize.ts line 49: 1.0 / options.maxCallCount
PercentBudgetUsed(maxCallCount) == NumberDivide(1, maxCallCount)

\* pendingCalculations.findIndex((pc) => pc === minMaxCalculation), 0-based, -1 if absent
RECURSIVE FindFrom(_, _, _)
FindFrom(pending, id, i) ==
    IF i > Len(pending) THEN -1
    ELSE IF pending[i].id = id THEN i - 1
    ELSE FindFrom(pending, id, i + 1)

findIndex(pending, id) == FindFrom(pending, id, 1)

\* mutant: the callback leaves its evaluation in the list
spliceNothing(pending, removeIndex) == pending

\* pendingCalculations.splice(removeIndex, 1); a negative index counts from the end
splice(pending, removeIndex) ==
    LET at == IF removeIndex < 0 THEN Max2(Len(pending) + removeIndex, 0) ELSE removeIndex
    IN [j \in 1..(IF at < Len(pending) THEN Len(pending) - 1 ELSE Len(pending)) |->
            IF j <= at THEN pending[j] ELSE pending[j + 1]]

HasRejected(pending) == \E i \in 1..Len(pending) : pending[i].st = "rejected"

\* mutant: the wait ends while one evaluation is still outstanding
PromiseAllButOne(pending) == Len(pending) <= 1

\* sensitivity.ts line 59: Promise.all(pendingCalculations) is fulfilled when
\* every evaluation of the list is; a fulfilled one has spliced itself out
PromiseAllFulfilled(pending) == pending = <<>>

\* an evaluation at position i settles while an older one is still outstanding
OvertakesOlder(pending, i) == \E j \in 1..i - 1 : pending[j].st = "pending"

\* ------------------------------------------------------------- actions
\* privatize.ts lines 25-30: debit, then check, before anything else. The
\* caller keeps at most MaxInFlight admitted invocations unfinished.
Invoke(c) ==
    /\ build.state = "handle"
    /\ IntegerOptions(BoundOptions)
    /\ running = 0
    /\ calls[c].pc = "idle"
    /\ IF c = 1 THEN TRUE ELSE calls[c - 1].pc # "idle"
    /\ LET spent == Debit(epsilonSoFar, epsilon)
           exceeded == BudgetExceeded(spent, options.maxEpsilon)
       IN /\ exceeded \/ InFlight < MaxInFlight
          /\ epsilonSoFar' = spent
          /\ calls' = [calls EXCEPT ![c].pc = IF exceeded THEN "raised" ELSE "estimate",
                                    ![c].debited = spent]
          /\ running' = IF exceeded THEN 0 ELSE c
    /\ UNCHANGED <<options, epsilon, dataset, iterKind, throwsOn, adapter, build, now, delivery, draw, other>>

\* privatize.ts lines 13-24: privatize(sensitiveFunction, userOptions) validates
\* the options and throws, or fills the defaults, derives epsilon and returns
\* the handle
Build ==
    /\ build.state = "none"
    /\ LET error == validateOptions(build.userOptions)
           filled == fillDefaultOptions(parsedOptions(build.userOptions))
       IN IF error # ""
          THEN /\ build' = [build EXCEPT !.state = "threw", !.error = error]
               /\ UNCHANGED <<options, epsilon, epsilonSoFar>>
          ELSE /\ build' = [build EXCEPT !.state = "handle", !.filled = filled]
               /\ epsilonSoFar' = Zero
               /\ IF IntegerOptions(filled)
                  THEN /\ options' = [maxEpsilon |-> filled.maxEpsilon.int,
                                      maxCallCount |-> filled.maxCallCount.int,
                                      maxConcurrentCalls |-> filled.maxConcurrentCalls.int]
                       /\ epsilon' = dividedBy(filled.maxEpsilon.int, filled.maxCallCount.int)
                  ELSE UNCHANGED <<options, epsilon>>
    /\ UNCHANGED <<dataset, iterKind, throwsOn, calls, running, adapter, now, delivery, draw, other>>

\* the view the caller took options.newShadowIterator from, for the kind "bound"
ProducerView ==
    IF adapter.backing.type = "array" THEN newArrayView(adapter.backing.data)
    ELSE newKeyValueView(adapter.backing.data)

\* sensitivity.ts line 25: newSubsetIter(dataset). The newShadowIterator of a
\* view takes no parameter and iterates the view it was taken from
\* (datastructures.ts lines 72 and 96); the other producers read their argument.
Producer(passed) ==
    IF iterKind = "bound" THEN newShadowIterator("own", ProducerView)
    ELSE newShadowIterator(iterKind, passed)

\* sensitivity.ts lines 24-31: the producer is called, the accumulators start
StartEstimate(c) ==
    /\ running = c
    /\ calls[c].pc = "estimate"
    /\ calls' = [calls EXCEPT ![c].pc = IF delivery.iterator THEN "awaitIter" ELSE "pull",
                              ![c].startedAt = now,
                              ![c].iter = Producer(dataset),
                              ![c].producerCalls = @ + 1,
                              ![c].minOutput = POSITIVE_INFINITY,
                              ![c].maxOutput = NEGATIVE_INFINITY,
                              ![c].pendingCalculations = <<>>]
    /\ running' = IF delivery.iterator THEN 0 ELSE c
    /\ UNCHANGED <<options, epsilon, epsilonSoFar, dataset, iterKind, throwsOn, adapter,
                 build, now, delivery, draw, other>>

\* sensitivity.ts lines 26-28: the awaited iterator has arrived
ResumeIter(c) ==
    /\ running = 0
    /\ calls[c].pc = "awaitIter"
    /\ calls' = [calls EXCEPT ![c].pc = "pull"]
    /\ running' = c
    /\ UNCHANGED <<options, epsilon, epsilonSoFar, dataset, iterKind, throwsOn, adapter,
                 build, now, delivery, draw, other>>

\* sensitivity.ts lines 32-55: one pass of the loop, up to its next await
Pull(c) ==
    /\ running = c
    /\ calls[c].pc = "pull"
    /\ LET me == calls[c]
           curIter == IterNext(me.iter)
           minMaxCalculation == [id |-> me.pulls + 1, value |-> curIter.value, st |-> "pending",
                                 at |-> now]
           pending == Append(me.pendingCalculations, minMaxCalculation)
           wait == Len(pending) >= Concurrency(options.maxConcurrentCalls)
       IN /\ calls' = [calls EXCEPT
                ![c].iter = IterAdvance(me.iter),
                ![c].pulls = @ + 1,
                ![c].funcCalls = IF curIter.value # Undefined THEN @ + 1 ELSE @,
                ![c].pendingCalculations = pending,
                ![c].curIter = curIter,
                ![c].awaited = IF wait THEN pending[1].id ELSE 0,
                ![c].pc = IF wait THEN "awaitOldest"
                          ELSE IF BreakLoop(curIter) THEN "awaitAll" ELSE "pull"]
          /\ running' = IF wait \/ BreakLoop(curIter) THEN 0 ELSE c
    /\ UNCHANGED <<options, epsilon, epsilonSoFar, dataset, iterKind, throwsOn, adapter, build, now, delivery, draw, other>>

\* sensitivity.ts lines 37-46 and 63-71: an evaluation settles; when it is
\* fulfilled its callback removes it from the pending list and folds its output
CompleteAt(c, i) ==
    /\ running = 0
    /\ calls[c].pendingCalculations[i].st = "pending"
    /\ SettlesInOrder => ~OvertakesOlder(calls[c].pendingCalculations, i)
    /\ LET me == calls[c]
           ev == me.pendingCalculations[i]
       IN IF EvaluationRejects(ev.value)
          THEN calls' = [calls EXCEPT
                     ![c].pendingCalculations[i].st = "rejected",
                     ![c].outOfOrder = @ \/ OvertakesOlder(me.pendingCalculations, i)]
          ELSE LET removeIndex == findIndex(me.pendingCalculations, ev.id)
                   modResult == runOnModifiedDataset(delivery.value, ev.value)
               IN calls' = [calls EXCEPT
                     ![c].pendingCalculations = splice(me.pendingCalculations, removeIndex),
                     ![c].outOfOrder = @ \/ OvertakesOlder(me.pendingCalculations, i),
                     ![c].minOutput = IF modResult # Undefined
                                      THEN DecimalMin(@, modResult[1]) ELSE @,
                     ![c].maxOutput = IF modResult # Undefined
                                      THEN DecimalMax(@, modResult[1]) ELSE @]
    /\ UNCHANGED <<options, epsilon, epsilonSoFar, dataset, iterKind, throwsOn, running, adapter,
                 build, now, delivery, draw, other>>

\* an evaluation of the invocation settles, at any time and in any order
Complete(c) == \E i \in DOMAIN calls[c].pendingCalculations : CompleteAt(c, i)

\* sensitivity.ts lines 50-55: the awaited oldest evaluation has settled
ResumeOldest(c) ==
    /\ running = 0
    /\ calls[c].pc = "awaitOldest"
    /\ LET me == calls[c]
           at == findIndex(me.pendingCalculations, me.awaited)
       IN /\ IF at = -1 THEN TRUE ELSE me.pendingCalculations[at + 1].st = "rejected"
          /\ IF at # -1
             THEN /\ calls' = [calls EXCEPT ![c].pc = "failed", ![c].awaited = 0]
                  /\ epsilonSoFar' = OnFailure(epsilonSoFar, epsilon)
                  /\ running' = 0
             ELSE /\ calls' = [calls EXCEPT ![c].awaited = 0,
                               ![c].pc = IF BreakLoop(me.curIter) THEN "awaitAll" ELSE "pull"]
                  /\ epsilonSoFar' = epsilonSoFar
                  /\ running' = IF BreakLoop(me.curIter) THEN 0 ELSE c
    /\ UNCHANGED <<options, epsilon, dataset, iterKind, throwsOn, adapter, build, now, delivery, draw, other>>

\* sensitivity.ts lines 59-60 and privatize.ts lines 31-41: Promise.all settles;
\* on success the sensitivity is returned and the function is called on the dataset
ResumeAll(c) ==
    /\ running = 0
    /\ calls[c].pc = "awaitAll"
    /\ LET me == calls[c]
       IN IF HasRejected(me.pendingCalculations)
          THEN /\ calls' = [calls EXCEPT ![c].pc = "failed"]
               /\ epsilonSoFar' = OnFailure(epsilonSoFar, epsilon)
          ELSE /\ PromiseAllFulfilled(me.pendingCalculations)
               /\ calls' = [calls EXCEPT
                     ![c].sensitivity = Some(minus(me.maxOutput, me.minOutput)),
                     ![c].funcCalls = @ + 1,
                     ![c].estimatedAt = now,
                     ![c].pc = "final"]
               /\ epsilonSoFar' = epsilonSoFar
    /\ UNCHANGED <<options, epsilon, dataset, iterKind, throwsOn, running, adapter, build, now, delivery, draw, other>>

\* mutant: the noise is not added
NoisyResultWithoutNoise(sensitiveResult, noise) == sensitiveResult

\* privatize.ts line 45: sensitiveResult.plus(noise)
NoisyResult(sensitiveResult, noise) == plus(sensitiveResult, noise)

\* privatize.ts lines 47-59: the object the invocation resolves with
PrivateFunctionResult(debugDangerously, sensitiveResult, noise) ==
    LET noisyResult == NoisyResult(sensitiveResult, noise)
        result == [epsilonBudgetUsed |-> EpsilonBudgetUsed(epsilon, epsilonSoFar),
                   percentBudgetUsed |-> PercentBudgetUsed(options.maxCallCount),
                   result |-> toNumber(noisyResult)]
    IN IF StrictlyTrue(debugDangerously)
       THEN [epsilonBudgetUsed |-> result.epsilonBudgetUsed,
             percentBudgetUsed |-> result.percentBudgetUsed,
             noiseAdded |-> toNumber(noise),
             privateResult |-> toNumber(sensitiveResult),
             result |-> result.result]
       ELSE result

\* privatize.ts lines 37-59: the evaluation on the dataset settles, the noise is drawn
FinalComplete(c) ==
    /\ running = 0
    /\ calls[c].pc = "final"
    /\ IF Throws(dataset)
       THEN /\ calls' = [calls EXCEPT ![c].pc = "failed"]
            /\ epsilonSoFar' = OnFailure(epsilonSoFar, epsilon)
       ELSE /\ \E noise \in build.probDistFunc :
                  LET sensitiveResult == FromInt(sumFunction(dataset))
                  IN calls' = [calls EXCEPT
                         ![c].sensitiveResult = Some(sensitiveResult),
                         ![c].noise = Some(noise),
                         ![c].result = Some(PrivateFunctionResult(
                                                BoundOptions.debugDangerously,
                                                sensitiveResult, noise)),
                         ![c].noiseDraws = @ + 1,
                         ![c].pc = "done"]
            /\ epsilonSoFar' = epsilonSoFar
    /\ UNCHANGED <<options, epsilon, dataset, iterKind, throwsOn, running, adapter, build, now, delivery, draw, other>>

Next ==
    \E c \in CallIds :
        \/ Invoke(c)
        \/ StartEstimate(c)
        \/ Pull(c)
        \/ Complete(c)
        \/ ResumeOldest(c)
        \/ ResumeAll(c)
        \/ FinalComplete(c)

\* ------------------------------------------------------- specifications
RECURSIVE SeqsUpTo(_, _)
SeqsUpTo(S, n) ==
    IF n = 0 THEN {<<>>}
    ELSE LET shorter == SeqsUpTo(S, n - 1)
         IN shorter \cup {Append(q, v) : q \in {r \in shorter : Len(r) = n - 1}, v \in S}

KeyNames == <<"a", "b", "c", "d", "e", "f">>

\* the object with the first Len(vals) keys of KeyNames and these values
KeyVals(vals) == [i \in 1..Len(vals) |-> [key |-> KeyNames[i], val |-> vals[i]]]

ArrayInputs(A) == {[view |-> newArrayView(a), kind |-> k] : a \in A, k \in {"own", "sql"}}
KeyValueInputs(A) == {[view |-> newKeyValueView(KeyVals(a)), kind |-> "own"] : a \in A}

InitWith(E, K, C, D, T) ==
    /\ options \in [maxEpsilon : E, maxCallCount : K, maxConcurrentCalls : C]
    /\ epsilon = dividedBy(options.maxEpsilon, options.maxCallCount)
    /\ epsilonSoFar = Zero
    /\ \E in \in D : dataset = in.view /\ iterKind = in.kind
    /\ throwsOn \in T
    /\ calls = [c \in CallIds |-> IdleCall]
    /\ running = 0
    /\ adapter = NoAdapter
    /\ build = BuiltHandle(options)
    /\ now = 0
    /\ delivery = SettledLater
    /\ draw = NoDraw
    /\ other = NoOther

\* one handle with maxCallCount = 1 over every small array and object
Init ==
    InitWith({1}, {1}, 1..MaxCap,
             ArrayInputs(SeqsUpTo({0, 1}, MaxLen)) \cup KeyValueInputs(SeqsUpTo({0, 1}, MaxLen)),
             {{}} \cup {{i} : i \in NoIgnore..MaxLen - 1})

Spec == Init /\ [][Next]_vars

\* handles over one two-element array, every small budget, one evaluation at
\* a time within an invocation
InitBudget ==
    InitWith(1..MaxEpsilonBound, 1..MaxCallCountBound, {1},
             {[view |-> newArrayView(<<1, 0>>), kind |-> "own"]},
             {{}, {NoIgnore}, {0}})

SpecBudget == InitBudget /\ [][Next]_vars

\* one handle over every small array, with a caller's iterator that yields an
\* item without value before it is done
InitCustom ==
    InitWith({1}, {1}, 1..MaxCap,
             {[view |-> newArrayView(a), kind |-> "gap"] : a \in SeqsUpTo({0, 1}, MaxLen)},
             {{}, {0}})

SpecCustom == InitCustom /\ [][Next]_vars

\* The event loop runs every continuation that is ready, and every scheduled
\* evaluation settles; when the caller invokes the handle is up to the caller.
Fairness ==
    \A c \in CallIds :
        /\ WF_vars(StartEstimate(c) \/ Pull(c) \/ ResumeOldest(c) \/ ResumeAll(c)
                      \/ FinalComplete(c))
        /\ WF_vars(Complete(c))

\* one handle over the arrays of every small length, every cap
InitFair ==
    InitWith({1}, {1}, 1..MaxCap, ArrayInputs(SeqsUpTo({1}, MaxLen)), {{}, {0}, {1}})

SpecFair == InitFair /\ [][Next]_vars /\ Fairness

\* one handle whose producer is the newShadowIterator of a view of the caller,
\* invoked with that view or with another dataset
InitBound ==
    /\ options \in [maxEpsilon : {1}, maxCallCount : {1}, maxConcurrentCalls : 1..MaxCap]
    /\ epsilon = dividedBy(options.maxEpsilon, options.maxCallCount)
    /\ epsilonSoFar = Zero
    /\ \E a \in SeqsUpTo({0, 1}, MaxLen) : dataset = newArrayView(a)
    /\ iterKind = "bound"
    /\ throwsOn = {}
    /\ calls = [c \in CallIds |-> IdleCall]
    /\ running = 0
    /\ \E backing \in {[type |-> "array", data |-> a] : a \in SeqsUpTo({0, 1}, MaxLen)}
                      \cup {[type |-> "kv", data |-> KeyVals(a)] :
                                a \in SeqsUpTo({0, 1}, MaxLen)} :
          adapter = [backing |-> backing, iter |-> NoIter, created |-> backing,
                     yielded |-> <<>>, mutations |-> 0, readAfterChange |-> FALSE]
    /\ build = BuiltHandle(options)
    /\ now = 0
    /\ delivery = SettledLater
    /\ draw = NoDraw
    /\ other = NoOther

SpecBound == InitBound /\ [][Next]_vars

\* ------------------------------------------------------------- a second handle
\* mutant: the handles of one function and one options object share a counter
HandleCounterShared(own, first) == first

\* privatize.ts line 24: let epsilonSoFar, a variable of the call of privatize
\* that built the handle; the handle reads and writes this one only
HandleCounter(own, first) == own

\* privatize(sensitiveFunction, userOptions) is called a second time with the
\* same function and the same options object, at any time
BuildOther ==
    /\ build.state = "handle"
    /\ running = 0
    /\ ~other.built
    /\ other' = [built |-> TRUE, epsilonSoFar |-> Zero, outcomes |-> <<>>]
    /\ UNCHANGED <<options, epsilon, epsilonSoFar, dataset, iterKind, throwsOn, calls, running,
                 adapter, build, now, delivery, draw>>

\* privatize.ts lines 25-30 for the second handle: debit, then check; its
\* invocation is followed up to its admission
InvokeOther ==
    /\ other.built
    /\ running = 0
    /\ Len(other.outcomes) < MaxCalls
    /\ LET spent == Debit(HandleCounter(other.epsilonSoFar, epsilonSoFar), epsilon)
           exceeded == BudgetExceeded(spent, options.maxEpsilon)
       IN other' = [other EXCEPT !.epsilonSoFar = spent,
                                 !.outcomes = Append(@, IF exceeded THEN "raised"
                                                        ELSE "admitted")]
    /\ UNCHANGED <<options, epsilon, epsilonSoFar, dataset, iterKind, throwsOn, calls, running,
                 adapter, build, now, delivery, draw>>

\* two handles over one two-element array
InitHandles ==
    InitWith({1}, 1..MaxCallCountBound, {1},
             {[view |-> newArrayView(<<1, 0>>), kind |-> "own"]},
             {{}})

NextHandles == BuildOther \/ InvokeOther \/ Next

SpecHandles == InitHandles /\ [][NextHandles]_vars

\* --------------------------------------------------- plain and deferred delivery
\* one handle over every small array with the view's own sequence of shadow
\* datasets, the iterator, the values and the outputs plain or as Promises
InitDelivery ==
    /\ options \in [maxEpsilon : {1}, maxCallCount : {1}, maxConcurrentCalls : 1..MaxCap]
    /\ epsilon = dividedBy(options.maxEpsilon, options.maxCallCount)
    /\ epsilonSoFar = Zero
    /\ \E a \in SeqsUpTo({0, 1}, MaxLen) : dataset = newArrayView(a)
    /\ iterKind = "own"
    /\ throwsOn \in {{}, {0}}
    /\ calls = [c \in CallIds |-> IdleCall]
    /\ running = 0
    /\ adapter = NoAdapter
    /\ build = BuiltHandle(options)
    /\ now = 0
    /\ delivery \in Deliveries
    /\ draw = NoDraw
    /\ other = NoOther

NextDelivery ==
    \E c \in CallIds :
        \/ Invoke(c)
        \/ StartEstimate(c)
        \/ ResumeIter(c)
        \/ Pull(c)
        \/ Complete(c)
        \/ ResumeOldest(c)
        \/ ResumeAll(c)
        \/ FinalComplete(c)

SpecDelivery == InitDelivery /\ [][NextDelivery]_vars

\* ------------------------------------------------ evaluations of equal duration
\* Every call of the sensitive function takes one period (the tests' delay);
\* for an absent value runOnModifiedDataset returns without calling it.
Due(ev) == ev.st = "pending" /\ (ev.value = Undefined \/ ev.at < now)

\* the awaited oldest evaluation has settled
OldestSettled(c) ==
    LET at == findIndex(calls[c].pendingCalculations, calls[c].awaited)
    IN IF at = -1 THEN TRUE ELSE calls[c].pendingCalculations[at + 1].st = "rejected"

\* the invocation has a step to take at the present time
Urgent(c) ==
    \/ running = c
    \/ \E i \in DOMAIN calls[c].pendingCalculations : Due(calls[c].pendingCalculations[i])
    \/ calls[c].pc = "awaitOldest" /\ OldestSettled(c)
    \/ calls[c].pc = "awaitAll"
          /\ (HasRejected(calls[c].pendingCalculations)
                \/ PromiseAllFulfilled(calls[c].pendingCalculations))
    \/ calls[c].pc = "final"

\* a period passes once every callback that is ready has run
Tick ==
    /\ now < MaxTime
    /\ \A c \in CallIds : ~Urgent(c)
    /\ now' = now + 1
    /\ UNCHANGED <<options, epsilon, epsilonSoFar, dataset, iterKind, throwsOn, calls, running,
                 adapter, build, delivery, draw, other>>

\* an evaluation settles when its period is over
TimedComplete(c) ==
    \E i \in DOMAIN calls[c].pendingCalculations :
        Due(calls[c].pendingCalculations[i]) /\ CompleteAt(c, i)

NextTimed ==
    \/ Tick
    \/ \E c \in CallIds :
          \/ Invoke(c)
          \/ StartEstimate(c)
          \/ Pull(c)
          \/ TimedComplete(c)
          \/ ResumeOldest(c)
          \/ ResumeAll(c)
          \/ FinalComplete(c)

\* one handle over arrays of every small length, with the view's own iterator
\* and with the one that ends on an item without value
InitTimed ==
    InitWith({1}, {1}, 1..MaxCap + 1, ArrayInputs(SeqsUpTo({1}, MaxLen)), {{}, {0}})

SpecTimed == InitTimed /\ [][NextTimed]_vars

\* ------------------------------------------- shadow iterators, used directly
\* A caller keeps an array or a mapping, wraps it in a view, asks the view for
\* a shadow iterator and calls next() on it, changing the array or mapping in
\* between. adapter.created remembers the data at the newShadowIterator() call.
ElementValues == {0, 1}

\* newArrayView(srcArray) or newKeyValueView(srcKeyVals) over the caller's data
ViewOf(backing) ==
    IF backing.type = "array" THEN newArrayView(backing.data)
    ELSE newKeyValueView(backing.data)

\* mutant: the iterator reads the caller's data instead of its copy
IterDataAliased(it, backing) == [it EXCEPT !.dataCopy = backing.data]

\* the iterator reads dataCopy, filled when it was created, and holds no
\* reference to what the caller passed in
IterData(it, backing) == it

\* arr[i] = v, arr.push(v), arr.pop()
ArrayMutations(arr) ==
    ({[arr EXCEPT ![i] = v] : i \in 1..Len(arr), v \in ElementValues} \ {arr})
    \cup (IF Len(arr) < MaxLen THEN {Append(arr, v) : v \in ElementValues} ELSE {})
    \cup (IF arr # <<>> THEN {SubSeq(arr, 1, Len(arr) - 1)} ELSE {})

\* obj[k] = v for a key the mapping has and for a new key, delete obj[k]
KeyValueMutations(kv) ==
    ({[kv EXCEPT ![i].val = v] : i \in 1..Len(kv), v \in ElementValues} \ {kv})
    \cup (IF Len(kv) < MaxLen
          THEN LET used == {kv[i].key : i \in 1..Len(kv)}
                   new == KeyNames[CHOOSE i \in 1..Len(KeyNames) :
                                      /\ KeyNames[i] \notin used
                                      /\ \A j \in 1..i - 1 : KeyNames[j] \in used]
               IN {Append(kv, [key |-> new, val |-> v]) : v \in ElementValues}
          ELSE {})
    \cup {SelectSeq(kv, LAMBDA p : p.key # kv[i].key) : i \in 1..Len(kv)}

Mutate ==
    /\ adapter.mutations < MaxMutations
    /\ \E data \in IF adapter.backing.type = "array"
                    THEN ArrayMutations(adapter.backing.data)
                    ELSE KeyValueMutations(adapter.backing.data) :
          adapter' = [adapter EXCEPT !.backing.data = data, !.mutations = @ + 1]
    /\ UNCHANGED <<options, epsilon, epsilonSoFar, dataset, iterKind, throwsOn, calls, running,
                 build, now, delivery, draw, other>>

\* view.newShadowIterator()
NewShadowIterator ==
    /\ adapter.iter = NoIter
    /\ adapter' = [adapter EXCEPT !.iter = newShadowIterator("own", ViewOf(adapter.backing)),
                                  !.created = adapter.backing]
    /\ UNCHANGED <<options, epsilon, epsilonSoFar, dataset, iterKind, throwsOn, calls, running,
                 build, now, delivery, draw, other>>

\* iter.next()
IteratorNext ==
    /\ adapter.iter # NoIter
    /\ Len(adapter.yielded) < Len(adapter.created.data) + MaxPastEnd
    /\ adapter' = [adapter EXCEPT
          !.yielded = Append(@, IterNext(IterData(adapter.iter, adapter.backing))),
          !.iter = IterAdvance(adapter.iter),
          !.readAfterChange = @ \/ adapter.backing # adapter.created]
    /\ UNCHANGED <<options, epsilon, epsilonSoFar, dataset, iterKind, throwsOn, calls, running,
                 build, now, delivery, draw, other>>

NextAdapter == Mutate \/ NewShadowIterator \/ IteratorNext

\* every small array and mapping, no handle in use
InitAdapter ==
    /\ options = [maxEpsilon |-> 1, maxCallCount |-> 1, maxConcurrentCalls |-> 1]
    /\ epsilon = dividedBy(options.maxEpsilon, options.maxCallCount)
    /\ epsilonSoFar = Zero
    /\ dataset = newArrayView(<<>>)
    /\ iterKind = "own"
    /\ throwsOn = {}
    /\ calls = [c \in CallIds |-> IdleCall]
    /\ running = 0
    /\ build = BuiltHandle(options)
    /\ now = 0
    /\ delivery = SettledLater
    /\ draw = NoDraw
    /\ other = NoOther
    /\ \E backing \in {[type |-> "array", data |-> a] : a \in SeqsUpTo(ElementValues, MaxLen)}
                      \cup {[type |-> "kv", data |-> KeyVals(a)] :
                                a \in SeqsUpTo(ElementValues, MaxLen)} :
          adapter = [NoAdapter EXCEPT !.backing = backing, !.created = backing]

SpecAdapter == InitAdapter /\ [][NextAdapter]_vars

\* ------------------------------------------------------ building a handle
\* the options objects a caller may pass
MaxEpsilonValues ==
    {JsUndefined, JsString, JsNaN, JsNumber(-1), JsNumber(0), JsNumber(1), JsNumber(2)}
ProducerValues == {JsUndefined, JsString, JsFunction}
CountValues ==
    {JsUndefined, JsString, JsNaN, JsNumber(0), JsNumberAndHalf(0), JsNumber(1),
     JsNumberAndHalf(1), JsNumber(2)}

DebugValues == {JsUndefined, JsTrue, JsFalse, JsNumber(1), JsString}

\* the samples of the distribution function: none, a whole one, and one below
\* the seventeenth significant digit of a result near 1
NoiseSamples ==
    {Zero, FromInt(1),
     [d |-> <<4, 9, 9, 9, 9, 9, 9, 9, 9, 9, 9, 9, 9, 9, 9, 9, 9>>, e |-> -17]}

\* privatize has not been called yet; the dataset is a two-element array
InitBuild ==
    /\ options = NoOptions
    /\ epsilon = Zero
    /\ epsilonSoFar = Zero
    /\ dataset = newArrayView(<<1, 0>>)
    /\ iterKind = "own"
    /\ throwsOn \in {{}, {0}}
    /\ calls = [c \in CallIds |-> IdleCall]
    /\ running = 0
    /\ adapter = NoAdapter
    /\ now = 0
    /\ delivery = SettledLater
    /\ draw = NoDraw
    /\ other = NoOther
    /\ \E o \in [maxEpsilon : MaxEpsilonValues, newShadowIterator : ProducerValues,
                  maxCallCount : CountValues, maxConcurrentCalls : CountValues,
                  debugDangerously : DebugValues] :
          build = [userOptions |-> o, given |-> o,
                   state |-> "none", error |-> "",
                   filled |-> fillDefaultOptions(parsedOptions(OptionsObject(NoOptions))),
                   probDistFunc |-> NoiseSamples]

NextBuild == Build \/ Next

SpecBuild == InitBuild /\ [][NextBuild]_vars

\* ------------------------------------------------ the optional counts are omitted
\* privatize has not been called yet; the options object has maxEpsilon and the
\* producer only (privatize.test.ts "should work with minimimal options")
InitDefaults ==
    /\ options = NoOptions
    /\ epsilon = Zero
    /\ epsilonSoFar = Zero
    /\ \E a \in SeqsUpTo({1}, MaxDefaultLen) : dataset = newArrayView(a)
    /\ iterKind = "own"
    /\ throwsOn \in {{}, {0}}
    /\ calls = [c \in CallIds |-> IdleCall]
    /\ running = 0
    /\ adapter = NoAdapter
    /\ now = 0
    /\ delivery = SettledLater
    /\ draw = NoDraw
    /\ other = NoOther
    /\ \E o \in [maxEpsilon : {JsNumber(1), JsNumber(2)}, newShadowIterator : {JsFunction},
                  maxCallCount : {JsUndefined}, maxConcurrentCalls : {JsUndefined},
                  debugDangerously : {JsUndefined}] :
          build = [userOptions |-> o, given |-> o,
                   state |-> "none", error |-> "",
                   filled |-> fillDefaultOptions(parsedOptions(OptionsObject(NoOptions))),
                   probDistFunc |-> NoNoise]

SpecDefaults == InitDefaults /\ [][NextBuild]_vars

\* ------------------------------------------- the caller changes the options object
OptionValues(field) ==
    IF field = "maxEpsilon" THEN {JsNumber(1), JsNumber(2)}
    ELSE IF field = "newShadowIterator" THEN {JsFunction, JsUndefined}
    ELSE IF field = "debugDangerously" THEN {JsUndefined, JsTrue}
    ELSE IF field = "maxCallCount" THEN {JsUndefined, JsNumber(2)}
    ELSE {JsUndefined, JsNumber(1)}

\* between two handlers the caller assigns a field of the object it passed to
\* privatize, any number of times
ChangeOptions ==
    /\ build.state = "handle"
    /\ running = 0
    /\ \E field \in DOMAIN build.userOptions :
          \E v \in OptionValues(field) \ {build.userOptions[field]} :
             build' = [build EXCEPT !.userOptions[field] = v]
    /\ UNCHANGED <<options, epsilon, epsilonSoFar, dataset, iterKind, throwsOn, calls, running,
                 adapter, now, delivery, draw, other>>

\* privatize has not been called yet; the options object is a valid one
InitMutable ==
    /\ options = NoOptions
    /\ epsilon = Zero
    /\ epsilonSoFar = Zero
    /\ dataset = newArrayView(<<1, 0>>)
    /\ iterKind = "own"
    /\ throwsOn = {}
    /\ calls = [c \in CallIds |-> IdleCall]
    /\ running = 0
    /\ adapter = NoAdapter
    /\ now = 0
    /\ delivery = SettledLater
    /\ draw = NoDraw
    /\ other = NoOther
    /\ \E o \in [maxEpsilon : {JsNumber(1)}, newShadowIterator : {JsFunction},
                  maxCallCount : {JsUndefined, JsNumber(2)},
                  maxConcurrentCalls : {JsUndefined, JsNumber(1)},
                  debugDangerously : {JsUndefined, JsTrue}] :
          build = [userOptions |-> o, given |-> o,
                   state |-> "none", error |-> "",
                   filled |-> fillDefaultOptions(parsedOptions(OptionsObject(NoOptions))),
                   probDistFunc |-> NoNoise]

NextMutable == ChangeOptions \/ Build \/ Next

SpecMutable == InitMutable /\ [][NextMutable]_vars

\* ------------------------------------------------------- the Laplace noise
\* A Decimal with its sign: NaN, an infinity, or a magnitude.
Signed(neg, mag) == [nan |-> FALSE, inf |-> FALSE, neg |-> neg, mag |-> mag]
SignedInfinity(neg) == [nan |-> FALSE, inf |-> TRUE, neg |-> neg, mag |-> Zero]
SignedNaN == [nan |-> TRUE, inf |-> FALSE, neg |-> FALSE, mag |-> Zero]

\* The digits of a Decimal are multiplied in groups of four, as decimal.js
\* multiplies its words of base 1e7. The group j of ds, counted from the right
\* and from 0:
Group(ds, j) ==
    LET at(p) == IF p < Len(ds) THEN ds[Len(ds) - p] ELSE 0
    IN at(4 * j) + 10 * at(4 * j + 1) + 100 * at(4 * j + 2) + 1000 * at(4 * j + 3)

GroupCount(ds) == (Len(ds) + 3) \div 4

\* the sum of the products of the groups i of xs and k - i of ys, for i from "from" on
RECURSIVE GroupProducts(_, _, _, _)
GroupProducts(xs, ys, k, from) ==
    IF from > k \/ from >= GroupCount(xs) THEN 0
    ELSE (IF k - from < GroupCount(ys) THEN Group(xs, from) * Group(ys, k - from) ELSE 0)
         + GroupProducts(xs, ys, k, from + 1)

\* the groups of the product from group k on, the carry propagated
RECURSIVE ProductGroups(_, _, _, _)
ProductGroups(xs, ys, k, carry) ==
    IF k >= GroupCount(xs) + GroupCount(ys) THEN <<>>
    ELSE LET sum == GroupProducts(xs, ys, k, 0) + carry
         IN <<sum % 10000>> \o ProductGroups(xs, ys, k + 1, sum \div 10000)

\* a * b, exact
ExactProduct(a, b) ==
    IF a.d = <<>> \/ b.d = <<>> THEN Zero
    ELSE LET groups == ProductGroups(a.d, b.d, 0, 0)
             n == Len(a.d) + Len(b.d)
             at(p) == (groups[p \div 4 + 1] \div (IF p % 4 = 0 THEN 1
                                                  ELSE IF p % 4 = 1 THEN 10
                                                  ELSE IF p % 4 = 2 THEN 100 ELSE 1000)) % 10
         IN Normalize([i \in 1..n |-> at(n - i)], a.e + b.e + 1)

\* Decimal.prototype.times: NaN for 0 * Infinity, the sign is the product of the signs
times(x, y) ==
    IF x.nan \/ y.nan THEN SignedNaN
    ELSE IF (x.inf /\ ~y.inf /\ y.mag = Zero) \/ (y.inf /\ ~x.inf /\ x.mag = Zero) THEN SignedNaN
    ELSE IF x.inf \/ y.inf THEN SignedInfinity(x.neg # y.neg)
    ELSE Signed(x.neg # y.neg, finalise(ExactProduct(x.mag, y.mag)))

\* Decimal.random(): a number of [0, 1), 0 included; here the multiples of 1/20,
\* as their numerators
RandomValues == 0..19

\* Decimal.random().minus(0.5), in twentieths: a number of [-1/2, 1/2)
SymmetricRandom(random) == random - 10

\* ONE.minus(TWO.times(Decimal.abs(symmetricRandom))), in tenths: a number of [0, 1]
LogArgument(symmetricRandom) ==
    10 - (IF symmetricRandom < 0 THEN -symmetricRandom ELSE symmetricRandom)

\* the magnitudes of log10(t / 10) for t = 1..9, to 25 significant digits
Log10Magnitudes ==
    <<
        [d |-> <<1>>, e |-> 0],
        [d |-> <<6, 9, 8, 9, 7, 0, 0, 0, 4, 3, 3, 6, 0, 1, 8, 8, 0, 4, 7, 8, 6, 2, 6, 1, 1>>, e |-> -1],
        [d |-> <<5, 2, 2, 8, 7, 8, 7, 4, 5, 2, 8, 0, 3, 3, 7, 5, 6, 2, 7, 0, 4, 9, 7, 2, 1>>, e |-> -1],
        [d |-> <<3, 9, 7, 9, 4, 0, 0, 0, 8, 6, 7, 2, 0, 3, 7, 6, 0, 9, 5, 7, 2, 5, 2, 2, 2>>, e |-> -1],
        [d |-> <<3, 0, 1, 0, 2, 9, 9, 9, 5, 6, 6, 3, 9, 8, 1, 1, 9, 5, 2, 1, 3, 7, 3, 8, 9>>, e |-> -1],
        [d |-> <<2, 2, 1, 8, 4, 8, 7, 4, 9, 6, 1, 6, 3, 5, 6, 3, 6, 7, 4, 9, 1, 2, 3, 3, 2>>, e |-> -1],
        [d |-> <<1, 5, 4, 9, 0, 1, 9, 5, 9, 9, 8, 5, 7, 4, 3, 1, 6, 9, 2, 8, 7, 7, 8, 3, 7>>, e |-> -1],
        [d |-> <<9, 6, 9, 1, 0, 0, 1, 3, 0, 0, 8, 0, 5, 6, 4, 1, 4, 3, 5, 8, 7, 8, 3, 3, 2>>, e |-> -2],
        [d |-> <<4, 5, 7, 5, 7, 4, 9, 0, 5, 6, 0, 6, 7, 5, 1, 2, 5, 4, 0, 9, 9, 4, 4, 1, 9>>, e |-> -2]
    >>

\* the magnitudes of ln(t / 10) for t = 1..9, to 25 significant digits
LnMagnitudes ==
    <<
        [d |-> <<2, 3, 0, 2, 5, 8, 5, 0, 9, 2, 9, 9, 4, 0, 4, 5, 6, 8, 4, 0, 1, 7, 9, 9, 1>>, e |-> 0],
        [d |-> <<1, 6, 0, 9, 4, 3, 7, 9, 1, 2, 4, 3, 4, 1, 0, 0, 3, 7, 4, 6, 0, 0, 7, 5, 9>>, e |-> 0],
        [d |-> <<1, 2, 0, 3, 9, 7, 2, 8, 0, 4, 3, 2, 5, 9, 3, 5, 9, 9, 2, 6, 2, 2, 7, 4, 6>>, e |-> 0],
        [d |-> <<9, 1, 6, 2, 9, 0, 7, 3, 1, 8, 7, 4, 1, 5, 5, 0, 6, 5, 1, 8, 3, 5, 2, 7, 2>>, e |-> -1],
        [d |-> <<6, 9, 3, 1, 4, 7, 1, 8, 0, 5, 5, 9, 9, 4, 5, 3, 0, 9, 4, 1, 7, 2, 3, 2, 1>>, e |-> -1],
        [d |-> <<5, 1, 0, 8, 2, 5, 6, 2, 3, 7, 6, 5, 9, 9, 0, 6, 8, 3, 2, 0, 5, 5, 1, 4, 1>>, e |-> -1],
        [d |-> <<3, 5, 6, 6, 7, 4, 9, 4, 3, 9, 3, 8, 7, 3, 2, 3, 7, 8, 9, 1, 2, 6, 3, 8, 7>>, e |-> -1],
        [d |-> <<2, 2, 3, 1, 4, 3, 5, 5, 1, 3, 1, 4, 2, 0, 9, 7, 5, 5, 7, 6, 6, 2, 9, 5, 1>>, e |-> -1],
        [d |-> <<1, 0, 5, 3, 6, 0, 5, 1, 5, 6, 5, 7, 8, 2, 6, 3, 0, 1, 2, 2, 7, 5, 0, 1>>, e |-> -1]
    >>

\* Decimal.ln: the natural logarithm, which the source does not call
DecimalLn(tenths) ==
    IF tenths = 0 THEN SignedInfinity(TRUE)
    ELSE IF tenths = 10 THEN Signed(FALSE, Zero)
    ELSE Signed(TRUE, LnMagnitudes[tenths])

\* Decimal.log(x) with no base given: the logarithm to base 10; -Infinity for 0
DecimalLog(tenths) ==
    IF tenths = 0 THEN SignedInfinity(TRUE)
    ELSE IF tenths = 10 THEN Signed(FALSE, Zero)
    ELSE Signed(TRUE, Log10Magnitudes[tenths])

\* laplaceProbDistribution(sensitivity, epsilon), for the number Decimal.random() gave
laplaceProbDistribution(sensitivity, epsilonOfCall, random) ==
    LET scale == Signed(FALSE, dividedBy(sensitivity, epsilonOfCall))
        symmetricRandom == SymmetricRandom(random)
        sign == IF symmetricRandom > 0 THEN Signed(FALSE, One) ELSE Signed(TRUE, One)
    IN times(times(scale, sign), DecimalLog(LogArgument(symmetricRandom)))

\* a call of laplaceProbDistribution returns
Sample ==
    /\ draw.st = "called"
    /\ draw' = [st |-> "returned", sensitivity |-> draw.sensitivity, epsilon |-> draw.epsilon,
                random |-> draw.random,
                noise |-> laplaceProbDistribution(draw.sensitivity, draw.epsilon, draw.random)]
    /\ UNCHANGED <<options, epsilon, epsilonSoFar, dataset, iterKind, throwsOn, calls, running,
                 adapter, build, now, delivery, other>>

\* laplaceProbDistribution is called with a finite sensitivity and a positive
\* epsilon, and Decimal.random() gives any of its values
InitLaplace ==
    /\ options = [maxEpsilon |-> 1, maxCallCount |-> 1, maxConcurrentCalls |-> 1]
    /\ epsilon = dividedBy(options.maxEpsilon, options.maxCallCount)
    /\ epsilonSoFar = Zero
    /\ dataset = newArrayView(<<>>)
    /\ iterKind = "own"
    /\ throwsOn = {}
    /\ calls = [c \in CallIds |-> IdleCall]
    /\ running = 0
    /\ adapter = NoAdapter
    /\ build = BuiltHandle(options)
    /\ now = 0
    /\ delivery = SettledLater
    /\ other = NoOther
    /\ draw \in [st : {"called"}, sensitivity : 0..MaxSensitivity, epsilon : 1..MaxEpsilonBound,
                 random : RandomValues]

SpecLaplace == InitLaplace /\ [][Sample]_vars

\* ----------------------------------------------------------------- claims
Started == {c \in CallIds : calls[c].pc # "idle"}
Admitted == {c \in CallIds : calls[c].pc \notin {"idle", "raised"}}
Raised == {c \in CallIds : calls[c].pc = "raised"}
MaxEpsilonDecimal == FromInt(options.maxEpsilon)
Cap == options.maxConcurrentCalls

\* evaluations of invocation c that were scheduled and have not completed
Outstanding(c) ==
    Cardinality({i \in DOMAIN calls[c].pendingCalculations :
                    calls[c].pendingCalculations[i].st = "pending"})

\* calls of the sensitive function that invocation c has started and that have
\* not returned yet
ExecutingOf(c) ==
    Cardinality({i \in DOMAIN calls[c].pendingCalculations :
                    /\ calls[c].pendingCalculations[i].st = "pending"
                    /\ calls[c].pendingCalculations[i].value # Undefined})
    + (IF calls[c].pc = "final" THEN 1 ELSE 0)

RECURSIVE SumOver(_, _)
SumOver(f, S) ==
    IF S = {} THEN 0
    ELSE LET c == CHOOSE c \in S : TRUE IN f[c] + SumOver(f, S \ {c})

Executing == SumOver([c \in CallIds |-> ExecutingOf(c)], CallIds)

\* C1 (as claimed): with maxCallCount = k and a sensitive function that never
\* fails, the first k invocations are admitted and the (k+1)th raises
\* PrivacyBudgetExceeded, whatever maxEpsilon is.
C1_ExactlyKSucceed ==
    throwsOn = {} =>
        \A c \in Started :
            /\ c <= options.maxCallCount => calls[c].pc # "raised"
            /\ c = options.maxCallCount + 1 => calls[c].pc = "raised"

\* C2 (as claimed): the exact sum of the per-call epsilon over the admitted
\* invocations never exceeds maxEpsilon.
C2_AdmittedSumWithinBudget ==
    ~greaterThan(ExactTimes(epsilon, Cardinality(Admitted)), MaxEpsilonDecimal)

\* C3: once an invocation has raised PrivacyBudgetExceeded, every later
\* invocation of the handle raises it too.
C3_ExceededForever ==
    \A c1 \in Raised : \A c2 \in Started : c2 > c1 => calls[c2].pc = "raised"

C3_Witness ==
    \E c \in Raised : c + 1 \in Raised /\ c - 1 \in Admitted

\* C4: an invocation whose debit takes the counter past maxEpsilon raises
\* PrivacyBudgetExceeded, and an invocation that raises it has done no work: no
\* producer call, no pull, no call of the sensitive function, no noise drawn.
C4_NoWorkWhenExceeded ==
    \A c \in Started :
        (calls[c].pc = "raised" \/ greaterThan(calls[c].debited, MaxEpsilonDecimal)) =>
            /\ calls[c].pc = "raised"
            /\ calls[c].producerCalls = 0
            /\ calls[c].pulls = 0
            /\ calls[c].funcCalls = 0
            /\ calls[c].noiseDraws = 0
            /\ calls[c].iter = NoIter
            /\ calls[c].pendingCalculations = <<>>

C4_Witness ==
    \E c \in Raised : \E c2 \in Admitted : calls[c2].pc = "done" /\ calls[c2].pulls > 0

\* C5: with several invocations in flight, every debit is in the counter (it
\* holds as many additions of epsilon as invocations were started) and at most
\* maxCallCount invocations pass the budget check.
C5_NoLostDebit ==
    /\ epsilonSoFar = PlusTimes(epsilon, Cardinality(Started))
    /\ Cardinality(Admitted) <= options.maxCallCount

C5_Witness ==
    /\ InFlight = MaxInFlight
    /\ Raised # {}
    /\ Cardinality(Admitted) = options.maxCallCount

\* C6: a failure of the sensitive function, during estimation or in the final
\* evaluation, refunds nothing: the counter still holds the debit of the failed
\* invocation, so invocations beyond maxCallCount raise although earlier ones failed.
C6_NoRefundOnFailure ==
    \A c \in Started :
        calls[c].pc = "failed" =>
            /\ calls[c].debited = PlusTimes(epsilon, c)
            /\ ~greaterThan(calls[c].debited, epsilonSoFar)
            /\ epsilonSoFar = PlusTimes(epsilon, Cardinality(Started))
            /\ \A c2 \in Started : c2 > options.maxCallCount => calls[c2].pc = "raised"

C6_Witness ==
    \E c \in Started :
        /\ calls[c].pc = "failed"
        /\ c = options.maxCallCount
        /\ c + 1 \in Raised

\* C7: in a run of the estimator with cap C, never more than C scheduled
\* evaluations are uncompleted.
C7_OutstandingWithinCap ==
    \A c \in CallIds :
        /\ Outstanding(c) <= Cap
        /\ Len(calls[c].pendingCalculations) <= Cap

C7_Witness ==
    \E c \in CallIds :
        /\ Cap >= 2
        /\ Outstanding(c) = Cap
        /\ calls[c].pc = "awaitOldest"
        /\ ~calls[c].curIter.done

C9_LastValueHonoured ==
    \A c \in CallIds :
        LET me == calls[c]
        IN (me.curIter.done /\ me.curIter.value # Undefined) =>
            /\ me.pc # "pull"
            /\ me.pulls = RemovedIdentity(me.curIter.value[1]) + 1
            /\ me.funcCalls >= me.pulls
            /\ \/ \E i \in DOMAIN me.pendingCalculations :
                     /\ me.pendingCalculations[i].id = me.pulls
                     /\ me.pendingCalculations[i].value = me.curIter.value
               \/ LET out == Num(sumFunction(me.curIter.value[1]))
                  IN /\ ~NumLess(out, me.minOutput)
                     /\ ~NumLess(me.maxOutput, out)
            /\ me.sensitivity # Undefined =>
                  LET out == Num(sumFunction(me.curIter.value[1]))
                  IN ~NumLess(out, me.minOutput) /\ ~NumLess(me.maxOutput, out)

C9_Witness ==
    \E c \in CallIds :
        LET me == calls[c]
        IN /\ me.pc = "done"
           /\ me.curIter.done /\ me.curIter.value # Undefined
           /\ me.maxOutput = Num(sumFunction(me.curIter.value[1]))
           /\ me.minOutput # me.maxOutput

\* the array without its i-th element (1-based), and the sum of a sequence
RemoveAt(arr, i) == [j \in 1..Len(arr) - 1 |-> IF j < i THEN arr[j] ELSE arr[j + 1]]

RECURSIVE SeqSum(_)
SeqSum(q) == IF q = <<>> THEN 0 ELSE Head(q) + SeqSum(Tail(q))

RemovalOutputs(arr) == {SeqSum(RemoveAt(arr, i)) : i \in 1..Len(arr)}

\* the values of the dataset, identity by identity
Identities ==
    IF dataset.type = "array" THEN dataset.srcArray
    ELSE [i \in 1..Len(dataset.srcKeyVals) |-> dataset.srcKeyVals[i].val]
SetMax(S) == CHOOSE m \in S : \A o \in S : o <= m
SetMin(S) == CHOOSE m \in S : \A o \in S : m <= o

\* C10: over an array view or a key-value view of n >= 2 identities, with the
\* view's own iterator, the estimator returns the largest minus the smallest
\* output over the n single-identity removals, which is >= 0.
C10_SensitivityIsSwing ==
    \A c \in CallIds :
        (iterKind = "own" /\ Len(Identities) >= 2 /\ calls[c].sensitivity # Undefined) =>
            /\ calls[c].sensitivity[1] =
                  Num(SetMax(RemovalOutputs(Identities)) - SetMin(RemovalOutputs(Identities)))
            /\ ~NumLess(calls[c].sensitivity[1], Num(0))

C10_Witness ==
    \E c \in CallIds :
        /\ iterKind = "own"
        /\ dataset.type = "kv"
        /\ Len(Identities) >= 3
        /\ calls[c].pc = "done"
        /\ calls[c].sensitivity = Some(Num(1))

\* the items the estimator's loop receives from an iterator, up to and
\* including the first one with done = true
RECURSIVE ItemsFrom(_)
ItemsFrom(it) ==
    LET item == IterNext(it)
    IN IF item.done THEN <<item>> ELSE <<item>> \o ItemsFrom(IterAdvance(it))

AllItems == ItemsFrom(newShadowIterator(iterKind, dataset))

\* the outputs of the sensitive function on the shadow datasets of the run
ShadowOutputs ==
    LET items == AllItems
    IN {sumFunction(items[i].value[1]) :
           i \in {j \in 1..Len(items) : items[j].value # Undefined}}

\* C11: whatever the order in which the scheduled evaluations complete, the
\* sensitivity returned is the largest minus the smallest of the shadow outputs.
C11_OrderIndependent ==
    \A c \in CallIds :
        (calls[c].sensitivity # Undefined /\ ShadowOutputs # {}) =>
            calls[c].sensitivity[1] = Num(SetMax(ShadowOutputs) - SetMin(ShadowOutputs))

C11_Witness ==
    \E c \in CallIds :
        /\ calls[c].outOfOrder
        /\ calls[c].pc = "done"
        /\ calls[c].sensitivity = Some(Num(1))

\* C12: the estimator has returned a value only if the source is exhausted,
\* every item was pulled, no scheduled evaluation is outstanding and every
\* shadow output is within min/max.
C12_ReturnsAfterAll ==
    \A c \in CallIds :
        calls[c].sensitivity # Undefined =>
            /\ calls[c].curIter.done
            /\ calls[c].pulls = Len(AllItems)
            /\ calls[c].pendingCalculations = <<>>
            /\ Outstanding(c) = 0
            /\ \A o \in ShadowOutputs :
                  /\ ~NumLess(Num(o), calls[c].minOutput)
                  /\ ~NumLess(calls[c].maxOutput, Num(o))

C12_Witness ==
    \E c \in CallIds :
        /\ calls[c].sensitivity # Undefined
        /\ calls[c].pulls >= 3
        /\ Cap = 2
        /\ calls[c].outOfOrder
        /\ calls[c].maxOutput # calls[c].minOutput

\* C13 (as claimed): when the source produces no shadow dataset, the
\* sensitivity returned is +infinity.
C13_ZeroShadowsPlusInfinity ==
    \A c \in CallIds :
        (calls[c].sensitivity # Undefined /\ ShadowOutputs = {}) =>
            calls[c].sensitivity[1] = POSITIVE_INFINITY

\* C14: over an array of n elements the i-th next() (i = 1..n) yields a view
\* of all elements but the i-th, in their order and renumbered from 0; done is
\* false on the first n - 1 items and true on the n-th; every later next()
\* yields done = true and no value, as does the first one when n = 0.
C14_ArrayShadows ==
    adapter.created.type = "array" =>
        LET n == Len(adapter.created.data)
        IN \A i \in 1..Len(adapter.yielded) :
              LET item == adapter.yielded[i]
              IN IF i <= n
                 THEN /\ item.value # Undefined
                      /\ mapIdentity(item.value[1]) = RemoveAt(adapter.created.data, i)
                      /\ \A j \in 1..n - 1 : forEach(item.value[1])[j].index = j - 1
                      /\ item.done = (i = n)
                 ELSE item.done /\ item.value = Undefined

C14_Witness ==
    /\ adapter.created.type = "array"
    /\ Len(adapter.created.data) >= 3
    /\ Len(adapter.yielded) > Len(adapter.created.data)

\* the keys a view's forEach visits
VisitedKeys(view) == {forEach(view)[j].index : j \in 1..Len(forEach(view))}

\* C15: over a mapping with n keys the i-th next() (i = 1..n) yields a view of
\* all entries but the one of the i-th key, so each key is left out by exactly
\* one view; done is true from the n-th item on; every later next() yields
\* done = true and no value, as does the first one for an empty mapping.
C15_KeyValueShadows ==
    adapter.created.type = "kv" =>
        LET kv == adapter.created.data
            n == Len(kv)
            keys == {kv[j].key : j \in 1..n}
        IN /\ \A i \in 1..Len(adapter.yielded) :
                 LET item == adapter.yielded[i]
                 IN IF i <= n
                    THEN /\ item.value # Undefined
                         /\ VisitedKeys(item.value[1]) = keys \ {kv[i].key}
                         /\ forEach(item.value[1]) =
                               [j \in 1..n - 1 |->
                                   [el |-> RemoveAt(kv, i)[j].val,
                                    index |-> RemoveAt(kv, i)[j].key]]
                         /\ item.done = (i >= n)
                    ELSE item.done /\ item.value = Undefined
           /\ Len(adapter.yielded) >= n =>
                 \A k \in keys :
                    Cardinality({i \in 1..n :
                        k \notin VisitedKeys(adapter.yielded[i].value[1])}) = 1

C15_Witness ==
    /\ adapter.created.type = "kv"
    /\ Len(adapter.created.data) >= 3
    /\ Len(adapter.yielded) > Len(adapter.created.data)

\* C16 (as claimed): a key-value shadow view that leaves out key k shows the
\* mapping without k through forEach, map and get: get(k) yields no value.
C16_ShadowHidesKey ==
    \A i \in 1..Len(adapter.yielded) :
        LET item == adapter.yielded[i]
        IN (item.value # Undefined /\ item.value[1].type = "kv") =>
              LET view == item.value[1]
                  k == view.ignoreKey[1]
              IN /\ k \notin VisitedKeys(view)
                 /\ Len(mapIdentity(view)) = Len(view.srcKeyVals) - 1
                 /\ get(view, k) = Undefined

RECURSIVE NthItem(_, _)
NthItem(it, i) == IF i = 1 THEN IterNext(it) ELSE NthItem(IterAdvance(it), i - 1)

\* C17: what an iterator yields is fixed by the data at the newShadowIterator()
\* call: whatever the caller changes afterwards, the i-th item is the i-th item
\* of an iterator over that data, and the number of shadow views is its size.
C17_SnapshotAtCreation ==
    LET fresh == newShadowIterator("own", ViewOf(adapter.created))
        n == Len(adapter.created.data)
    IN /\ \A i \in 1..Len(adapter.yielded) : adapter.yielded[i] = NthItem(fresh, i)
       /\ Cardinality({i \in 1..Len(adapter.yielded) :
                          adapter.yielded[i].value # Undefined})
             = Min2(Len(adapter.yielded), n)

C17_Witness ==
    /\ adapter.readAfterChange
    /\ Len(adapter.backing.data) # Len(adapter.created.data)
    /\ Len(adapter.created.data) >= 2
    /\ Len(adapter.yielded) > Len(adapter.created.data)

\* an option value that is absent or of another type than number
NotANumber(v) == v.t # "number"
\* a number below 1; a number that is 0 or below
BelowOne(v) == v.t = "number" /\ ~v.nan /\ v.int <= 0
ZeroOrBelow(v) == v.t = "number" /\ ~v.nan /\ (v.int < 0 \/ (v.int = 0 /\ ~v.half))

\* the configurations C18 lists as invalid
InvalidConfiguration(o) ==
    \/ NotANumber(o.maxEpsilon) \/ ZeroOrBelow(o.maxEpsilon)
    \/ o.newShadowIterator.t # "function"
    \/ o.maxCallCount.t # "undefined"
          /\ (NotANumber(o.maxCallCount) \/ BelowOne(o.maxCallCount))
    \/ o.maxConcurrentCalls.t # "undefined"
          /\ (NotANumber(o.maxConcurrentCalls) \/ BelowOne(o.maxConcurrentCalls))

\* C18: privatize throws, and returns no handle, when maxEpsilon is missing,
\* not a number or <= 0, when the producer is not a function, or when
\* maxCallCount or maxConcurrentCalls is given and is not a number or is < 1;
\* after a throw nothing can be invoked, and what is invoked is a handle whose
\* build raised no error.
C18_InvalidConfigThrowsAtBuild ==
    /\ (build.state # "none" /\ InvalidConfiguration(build.userOptions)) =>
          (build.state = "threw" /\ build.error # "")
    /\ build.state = "threw" => \A c \in CallIds : calls[c].pc = "idle"
    /\ \A c \in CallIds :
          calls[c].pc # "idle" =>
              /\ build.state = "handle"
              /\ build.error = ""
              /\ ~InvalidConfiguration(build.userOptions)

C18_Witness ==
    /\ build.state = "threw"
    /\ build.userOptions.maxEpsilon = JsNumber(1)
    /\ build.userOptions.newShadowIterator = JsFunction
    /\ build.userOptions.maxCallCount = JsUndefined
    /\ build.userOptions.maxConcurrentCalls = JsNumberAndHalf(0)

\* C19 (as claimed): privatize throws when maxCallCount or maxConcurrentCalls is
\* a number >= 1 that is not an integer, and the maxCallCount and the
\* concurrency cap of every handle are integers >= 1.
C19_IntegerOptionsOnly ==
    LET fractional(v) == v.t = "number" /\ ~v.nan /\ v.half /\ v.int >= 1
        wholeFromOne(v) == v.t = "number" /\ ~v.nan /\ ~v.half /\ v.int >= 1
    IN /\ (build.state # "none"
            /\ (fractional(build.userOptions.maxCallCount)
                \/ fractional(build.userOptions.maxConcurrentCalls))) =>
              build.state = "threw"
       /\ build.state = "handle" =>
              /\ wholeFromOne(build.filled.maxCallCount)
              /\ wholeFromOne(build.filled.maxConcurrentCalls)


\* C20: every successful result reports the per-call epsilon maxEpsilon /
\* maxCallCount and the share 1 / maxCallCount, the same on every successful
\* invocation whatever was spent before; the epsilon reported is at most
\* maxEpsilon and the share at most 1 (both are non-negative).
C20_ResultReportsPerCallBudget ==
    \A c \in CallIds :
        calls[c].pc = "done" =>
            LET r == calls[c].result[1]
            IN /\ calls[c].result # Undefined
               /\ r.epsilonBudgetUsed = NumberDivide(options.maxEpsilon, options.maxCallCount)
               /\ r.percentBudgetUsed = NumberDivide(1, options.maxCallCount)
               /\ \A c2 \in CallIds : calls[c2].pc = "done" =>
                      /\ calls[c2].result[1].epsilonBudgetUsed = r.epsilonBudgetUsed
                      /\ calls[c2].result[1].percentBudgetUsed = r.percentBudgetUsed
               /\ ~greaterThan(r.epsilonBudgetUsed, MaxEpsilonDecimal)
               /\ ~greaterThan(r.percentBudgetUsed, One)
               /\ options.maxCallCount = 1 =>
                     (r.epsilonBudgetUsed = MaxEpsilonDecimal /\ r.percentBudgetUsed = One)

C20_Witness ==
    /\ options.maxCallCount >= 2
    /\ calls[1].pc = "done"
    /\ calls[options.maxCallCount].pc = "done"
    /\ greaterThan(epsilonSoFar, calls[1].result[1].epsilonBudgetUsed)

\* the result object of a finished invocation, and the names of its fields
ResultOf(c) == calls[c].result[1]
HasDebugFields(c) == {"privateResult", "noiseAdded"} \subseteq DOMAIN ResultOf(c)
HasNoDebugField(c) == {"privateResult", "noiseAdded"} \cap DOMAIN ResultOf(c) = {}

\* C21: a result holds privateResult and noiseAdded exactly when the handle was
\* built with the debug option equal to true; with the option absent, false or
\* any other value no result of the handle holds either field
C21_DebugFieldsIffDebugTrue ==
    \A c \in CallIds :
        calls[c].pc = "done" =>
            IF build.userOptions.debugDangerously = JsTrue
            THEN HasDebugFields(c)
            ELSE HasNoDebugField(c)

C21_Witness ==
    \E c \in CallIds :
        /\ calls[c].pc = "done"
        /\ build.userOptions.debugDangerously = JsTrue
        /\ HasDebugFields(c)

\* the sum of two numbers as a number, and closeness of two numbers
NumberPlus(a, b) == toNumber(ExactPlus(a, b))
Tolerance == [d |-> <<1>>, e |-> -15]
WithinTolerance(x, y) ==
    /\ ~greaterThan(x, ExactPlus(y, Tolerance))
    /\ ~greaterThan(y, ExactPlus(x, Tolerance))

\* privateResult is the output on the original dataset and noiseAdded the one sample
DebugFieldsAreTheInputs(c) ==
    /\ ResultOf(c).privateResult = toNumber(FromInt(sumFunction(dataset)))
    /\ calls[c].noiseDraws = 1
    /\ ResultOf(c).noiseAdded = toNumber(calls[c].noise[1])

SomeEvaluationFails ==
    \/ Throws(dataset)
    \/ LET items == AllItems
       IN \E i \in 1..Len(items) : items[i].value # Undefined /\ Throws(items[i].value[1])

FullResult(r) ==
    {"result", "epsilonBudgetUsed", "percentBudgetUsed"} \subseteq DOMAIN r

\* C23: an invocation one of whose evaluations failed, on a shadow dataset at
\* any position of the pending list or on the original dataset, never returns
\* a result; an invocation holds a result only when it has finished, and then a
\* full one with the sensitivity computed, and a failed invocation holds none
C23_FailureNeverYieldsResult ==
    \A c \in CallIds :
        /\ calls[c].result # Undefined <=> calls[c].pc = "done"
        /\ calls[c].pc = "done" =>
               /\ ~HasRejected(calls[c].pendingCalculations)
               /\ ~SomeEvaluationFails
               /\ FullResult(ResultOf(c))
               /\ calls[c].sensitivity # Undefined
               /\ calls[c].pendingCalculations = <<>>
        /\ calls[c].pc = "failed" =>
               /\ calls[c].result = Undefined
               /\ SomeEvaluationFails

C23_Witness ==
    \E c \in CallIds :
        /\ calls[c].pc = "failed"
        /\ calls[c].outOfOrder
        /\ HasRejected(calls[c].pendingCalculations)
        /\ calls[c].minOutput # POSITIVE_INFINITY
        /\ calls[c].result = Undefined

C23_WitnessOriginal ==
    \E c \in CallIds :
        /\ calls[c].pc = "failed"
        /\ calls[c].sensitivity # Undefined
        /\ ~HasRejected(calls[c].pendingCalculations)

\* the number of shadow datasets of the run, and the waves they need
ShadowCount ==
    LET items == AllItems
    IN Cardinality({i \in 1..Len(items) : items[i].value # Undefined})
CeilDiv(m, k) == (m + k - 1) \div k
StartedInPeriod(c, t) ==
    Cardinality({i \in DOMAIN calls[c].pendingCalculations :
                    /\ calls[c].pendingCalculations[i].at = t
                    /\ calls[c].pendingCalculations[i].value # Undefined})

\* C24: with cap C, M shadow datasets and every evaluation taking one period,
\* the estimation takes at least ceil(M / C) and fewer than ceil(M / C) + 1
\* periods, and at most C evaluations are started within one period
C24_EstimationTakesCeilPeriods ==
    \A c \in CallIds :
        /\ StartedInPeriod(c, now) <= Cap
        /\ calls[c].sensitivity # Undefined =>
               LET periods == calls[c].estimatedAt - calls[c].startedAt
               IN /\ periods >= CeilDiv(ShadowCount, Cap)
                  /\ periods < CeilDiv(ShadowCount, Cap) + 1

C24_Witness ==
    \E c \in CallIds :
        /\ calls[c].sensitivity # Undefined
        /\ ShadowCount = 3
        /\ Cap = 2
        /\ calls[c].estimatedAt - calls[c].startedAt = 2

\* C25 (as claimed): every invocation of a handle, a raising one included,
\* increases epsilonSoFar by exactly the per-call epsilon, once, at its start;
\* no other step changes the counter, which starts at 0 and never decreases
C25_DebitExactlyEpsilonOnce ==
    [][/\ \A c \in CallIds :
             (calls[c].pc = "idle" /\ calls'[c].pc # "idle") =>
                 /\ epsilonSoFar' = ExactPlus(epsilonSoFar, epsilon)
                 /\ calls'[c].pc \in {"raised", "estimate"}
       /\ (\A c \in CallIds : calls[c].pc = "idle" <=> calls'[c].pc = "idle") =>
             epsilonSoFar' = epsilonSoFar
       /\ ~greaterThan(epsilonSoFar, epsilonSoFar')
       /\ (\A c \in CallIds : calls[c].pc = "idle") => epsilonSoFar = Zero]_vars

\* the counter after a debit that was rounded: it is not the exact sum
C25_RoundedDebit ==
    /\ Cardinality(Started) = 2
    /\ epsilonSoFar # ExactTimes(epsilon, 2)

\* C26: an invocation that reached the call on the original dataset has called
\* the sensitive function once on each of the M shadow datasets, every one of
\* these evaluations has completed, and the call on the original dataset is
\* its (M + 1)-th and last call; before that it made at most M calls
C26_ShadowsThenOriginalOnce ==
    \A c \in CallIds :
        /\ calls[c].pc \in {"final", "done"} =>
               /\ calls[c].funcCalls = ShadowCount + 1
               /\ calls[c].pulls = Len(AllItems)
               /\ Outstanding(c) = 0
               /\ calls[c].pendingCalculations = <<>>
        /\ calls[c].pc \in {"estimate", "pull", "awaitOldest", "awaitAll"} =>
               calls[c].funcCalls <= ShadowCount

C26_Witness ==
    \E c \in CallIds :
        /\ calls[c].pc = "done"
        /\ ShadowCount = 3
        /\ calls[c].funcCalls = 4
        /\ calls[c].outOfOrder

\* C27 (as claimed): over an array view or a key-value view of fewer than 2
\* identities, with the view's own iterator, no shadow dataset is produced and
\* the sensitivity returned has infinite magnitude
C27_FewIdentitiesInfinite ==
    \A c \in CallIds :
        (iterKind = "own" /\ Len(Identities) < 2 /\ calls[c].sensitivity # Undefined) =>
            /\ ShadowCount = 0
            /\ calls[c].funcCalls = 1
            /\ calls[c].sensitivity[1] \in {POSITIVE_INFINITY, NEGATIVE_INFINITY}

\* a dataset of one identity: one shadow dataset, the empty one, and sensitivity 0
C27_OneIdentityZero ==
    \E c \in CallIds :
        /\ iterKind = "own"
        /\ Len(Identities) = 1
        /\ calls[c].pc = "done"
        /\ ShadowCount = 1
        /\ calls[c].sensitivity = Some(Num(0))

\* the items invocation c has pulled so far, in order
PulledItems(c) == [i \in 1..calls[c].pulls |-> NthItem(newShadowIterator(iterKind, dataset), i)]

\* C28 (as claimed): the sensitive function is called only on items with a
\* value, and an item without value is the last one pulled, whether or not its
\* done flag is set
C28_AbsentValueEndsIteration ==
    \A c \in CallIds :
        /\ calls[c].pc \in {"pull", "awaitOldest", "awaitAll"} =>
               calls[c].funcCalls =
                   Cardinality({i \in 1..calls[c].pulls : PulledItems(c)[i].value # Undefined})
        /\ \A i \in 1..calls[c].pulls - 1 : PulledItems(c)[i].value # Undefined

\* an item without value and without done was pulled, and the loop went on
C28_PulledPastAbsent ==
    \E c \in CallIds :
        /\ calls[c].pc = "done"
        /\ calls[c].pulls >= 3
        /\ PulledItems(c)[2] = [done |-> FALSE, value |-> Undefined]
        /\ calls[c].funcCalls = calls[c].pulls - 1

\* the oldest evaluation of the list that has not settled, 0 when there is none
OldestPending(pending) ==
    IF \A i \in 1..Len(pending) : pending[i].st # "pending" THEN 0
    ELSE pending[CHOOSE i \in 1..Len(pending) :
                    /\ pending[i].st = "pending"
                    /\ \A j \in 1..i - 1 : pending[j].st # "pending"].id

\* invocation c pulls an item in this step
Pulls(c) == calls'[c].pulls = calls[c].pulls + 1

\* C29 (as claimed): an item is pulled only while fewer than cap evaluations
\* are outstanding; after scheduling it the estimator starts a wait exactly
\* when the outstanding count has reached the cap, and it waits on the oldest
\* evaluation still pending
C29_WaitExactlyAtCap ==
    [][\A c \in CallIds :
          Pulls(c) =>
              /\ Outstanding(c) < Cap
              /\ calls'[c].pc = "awaitOldest" <=> Outstanding(c)' = Cap
              /\ calls'[c].pc = "awaitOldest" =>
                     calls'[c].awaited = OldestPending(calls'[c].pendingCalculations)]_vars

\* the wait is on an evaluation that has failed, with fewer than cap outstanding
C29_WaitsOnRejected ==
    \E c \in CallIds :
        /\ calls[c].pc = "awaitOldest"
        /\ Cap >= 2
        /\ Len(calls[c].pendingCalculations) = Cap
        /\ calls[c].pendingCalculations[1].st = "rejected"
        /\ calls[c].pendingCalculations[1].id = calls[c].awaited
        /\ calls[c].pendingCalculations[Cap].id = calls[c].pulls
        /\ \A i \in 2..Cap : calls[c].pendingCalculations[i].st = "pending"

\* invocation c is suspended in its wait on an evaluation that has not settled
Blocked(c) == calls[c].pc = "awaitOldest" /\ ~OldestSettled(c)

\* C30 (as claimed): whatever the durations of the evaluations, while the
\* source is not exhausted and fewer than cap evaluations are outstanding the
\* estimator is not blocked
C30_NeverBlockedBelowCap ==
    \A c \in CallIds :
        (~calls[c].curIter.done /\ Outstanding(c) < Cap) => ~Blocked(c)

\* blocked on the oldest evaluation after a younger one completed, with items
\* left to pull and no failure
C30_BlockedBelowCap ==
    \E c \in CallIds :
        /\ Blocked(c)
        /\ throwsOn = {}
        /\ ~calls[c].curIter.done
        /\ Cap = 2
        /\ Outstanding(c) = 1
        /\ calls[c].outOfOrder

\* C31 (as claimed): the pending list of an invocation holds exactly its
\* scheduled evaluations that have not completed; an evaluation leaves the
\* list when it completes, fulfilled or failed, and no other one is removed
C31_PendingIsOutstanding ==
    \A c \in CallIds :
        /\ \A i \in DOMAIN calls[c].pendingCalculations :
               calls[c].pendingCalculations[i].st = "pending"
        /\ \A i, j \in DOMAIN calls[c].pendingCalculations :
               i < j => calls[c].pendingCalculations[i].id < calls[c].pendingCalculations[j].id

\* a failed evaluation is still in the list while the estimator runs on
C31_RejectedStaysListed ==
    \E c \in CallIds :
        /\ calls[c].pc = "pull"
        /\ HasRejected(calls[c].pendingCalculations)

\* the sensitivity of the sequence of shadow datasets, however it is delivered
SequenceSensitivity ==
    LET outputs == ShadowOutputs
    IN IF outputs = {} THEN minus(NEGATIVE_INFINITY, POSITIVE_INFINITY)
       ELSE Num(SetMax(outputs) - SetMin(outputs))

\* C32: whether the iterator, the shadow values and the outputs of the
\* sensitive function arrive directly or as Promises, in any combination, the
\* sensitivity returned is the one of the underlying sequence of shadow datasets
C32_DeliveryIndependent ==
    \A c \in CallIds :
        calls[c].sensitivity # Undefined => calls[c].sensitivity[1] = SequenceSensitivity

C32_Witness ==
    \E c \in CallIds :
        /\ delivery = [iterator |-> TRUE, value |-> TRUE, output |-> FALSE]
        /\ calls[c].pc = "done"
        /\ calls[c].pulls >= 3
        /\ calls[c].sensitivity = Some(Num(1))

\* everything delivered directly: the same sensitivity
C32_WitnessPlain ==
    \E c \in CallIds :
        /\ delivery = [iterator |-> FALSE, value |-> FALSE, output |-> FALSE]
        /\ calls[c].pc = "done"
        /\ calls[c].pulls >= 3
        /\ calls[c].sensitivity = Some(Num(1))

\* the configuration derived from the options object as it was when privatize ran
GivenOptions == fillDefaultOptions(parsedOptions(build.given))

\* C33: whatever the caller assigns to the fields of the options object after
\* privatize returned, the handle keeps the configuration of the object as it
\* was passed: same budget, same per-call epsilon, same cap, same debug output
C33_HandleKeepsItsConfiguration ==
    build.state = "handle" =>
        /\ BoundOptions = GivenOptions
        /\ options = [maxEpsilon |-> GivenOptions.maxEpsilon.int,
                      maxCallCount |-> GivenOptions.maxCallCount.int,
                      maxConcurrentCalls |-> GivenOptions.maxConcurrentCalls.int]
        /\ epsilon = dividedBy(GivenOptions.maxEpsilon.int, GivenOptions.maxCallCount.int)
        /\ Cardinality(Admitted) <= GivenOptions.maxCallCount.int
        /\ \A c \in CallIds :
              /\ Len(calls[c].pendingCalculations) <= GivenOptions.maxConcurrentCalls.int
              /\ calls[c].pc = "done" =>
                    IF build.given.debugDangerously = JsTrue
                    THEN HasDebugFields(c)
                    ELSE HasNoDebugField(c)

\* an invocation finished after the caller switched the debug flag of the object
C33_Witness ==
    \E c \in CallIds :
        /\ calls[c].pc = "done"
        /\ build.userOptions.debugDangerously # build.given.debugDangerously
        /\ build.given.debugDangerously = JsTrue
        /\ HasDebugFields(c)

\* an invocation raised on the budget of the object as passed, after the caller
\* raised maxCallCount on the object
C33_WitnessBudget ==
    \E c \in CallIds :
        /\ calls[c].pc = "raised"
        /\ build.given.maxCallCount = JsUndefined
        /\ build.userOptions.maxCallCount = JsNumber(2)

\* C34: with maxCallCount omitted the handle admits one invocation, every
\* later one raises, and the result reports the whole budget (percentBudgetUsed
\* 1); with maxConcurrentCalls omitted at most 4 evaluations are outstanding
C34_DefaultsAreOneAndFour ==
    build.state = "handle" =>
        /\ options.maxCallCount = 1
        /\ options.maxConcurrentCalls = 4
        /\ \A c \in Started :
              /\ IF c = 1 THEN calls[c].pc # "raised" ELSE calls[c].pc = "raised"
              /\ Outstanding(c) <= 4
              /\ Len(calls[c].pendingCalculations) <= 4
              /\ calls[c].pc = "done" =>
                    /\ ResultOf(c).percentBudgetUsed = One
                    /\ ResultOf(c).epsilonBudgetUsed = MaxEpsilonDecimal

\* the first invocation succeeded over five shadow datasets, so that it waited
\* once 4 evaluations were scheduled, and the second invocation raised
C34_Witness ==
    /\ calls[1].pc = "done"
    /\ calls[1].pulls >= 5
    /\ build.userOptions.maxCallCount = JsUndefined
    /\ calls[2].pc = "raised"
    /\ ResultOf(1).percentBudgetUsed = One

\* 4 evaluations outstanding and the estimator waiting for the oldest
C34_WitnessAtCap ==
    \E c \in CallIds :
        /\ calls[c].pc = "awaitOldest"
        /\ Outstanding(c) = 4
        /\ build.userOptions.maxConcurrentCalls = JsUndefined

\* the snapshot without its element at 0-based index i
WithoutIndex(snapshot, i) ==
    [j \in 1..Len(snapshot) - 1 |-> IF j <= i THEN snapshot[j] ELSE snapshot[j + 1]]

\* the array shadow views the iterator has yielded
YieldedArrayViews ==
    {adapter.yielded[k].value[1] : k \in {k \in DOMAIN adapter.yielded :
                                             /\ adapter.created.type = "array"
                                             /\ adapter.yielded[k].value # Undefined}}

\* C35: the shadow view that leaves out index i of an n-element snapshot has the
\* indices 0..n-2: forEach and map hand over the remaining elements in their
\* order with the keys 0..n-2, and get(j) is the j-th entry of map(identity)
C35_ShadowViewIsContiguous ==
    \A view \in YieldedArrayViews :
        LET snapshot == adapter.created.data
            n == Len(snapshot)
            remaining == WithoutIndex(snapshot, view.ignoreIndex)
        IN /\ view.ignoreIndex \in 0..n - 1
           /\ forEach(view) = [j \in 1..n - 1 |-> [el |-> remaining[j], index |-> j - 1]]
           /\ mapIdentity(view) = remaining
           /\ \A j \in 0..n - 2 : get(view, j) = Some(mapIdentity(view)[j + 1])

\* the view without the middle element of a three-element snapshot, whose
\* get(1) is the last element and differs from the element left out
C35_Witness ==
    \E view \in YieldedArrayViews :
        /\ Len(adapter.created.data) = 3
        /\ view.ignoreIndex = 1
        /\ adapter.created.data[2] # adapter.created.data[3]
        /\ get(view, 1) = Some(adapter.created.data[3])
        /\ Len(forEach(view)) = 2

Finite(x) == ~x.nan /\ ~x.inf

\* C36: the draw u lies strictly between -1/2 and 1/2, so that 1 - 2|u| is
\* positive and the noise is finite for a finite sensitivity and a positive epsilon
C36_DrawStrictlyInside ==
    draw.st = "returned" =>
        /\ SymmetricRandom(draw.random) > -10
        /\ SymmetricRandom(draw.random) < 10
        /\ LogArgument(SymmetricRandom(draw.random)) > 0
        /\ Finite(draw.noise)

\* Decimal.random() gave 0: the draw is -1/2 and the noise is not finite
C36_DrawAtEndpoint ==
    /\ draw.st = "returned"
    /\ draw.random = 0
    /\ LogArgument(SymmetricRandom(draw.random)) = 0
    /\ ~Finite(draw.noise)

\* (sensitivity / epsilon) * sign(u) * ln(1 - 2|u|), sign = +1 for u > 0, else -1
LnFormula(sensitivity, epsilonOfCall, random) ==
    LET u == SymmetricRandom(random)
        sign == IF u > 0 THEN Signed(FALSE, One) ELSE Signed(TRUE, One)
    IN times(times(Signed(FALSE, dividedBy(sensitivity, epsilonOfCall)), sign),
             DecimalLn(LogArgument(u)))

\* x <= y for magnitudes
AtMost(x, y) == ~greaterThan(x, y)

\* C37: for a fixed draw u the sample is (sensitivity / epsilon) * sign(u) *
\* ln(1 - 2|u|); its absolute value does not decrease when the sensitivity
\* grows and does not increase when epsilon grows
C37_SampleIsLnFormula ==
    (draw.st = "returned" /\ Finite(draw.noise)) =>
        /\ draw.noise = LnFormula(draw.sensitivity, draw.epsilon, draw.random)
        /\ \A s \in 0..draw.sensitivity :
              AtMost(laplaceProbDistribution(s, draw.epsilon, draw.random).mag, draw.noise.mag)
        /\ \A e \in 1..draw.epsilon :
              AtMost(draw.noise.mag,
                     laplaceProbDistribution(draw.sensitivity, e, draw.random).mag)

\* the absolute value alone: it grows with the sensitivity and shrinks with epsilon
C37_MagnitudeIsMonotone ==
    (draw.st = "returned" /\ Finite(draw.noise)) =>
        /\ \A s \in 0..draw.sensitivity :
              AtMost(laplaceProbDistribution(s, draw.epsilon, draw.random).mag, draw.noise.mag)
        /\ \A e \in 1..draw.epsilon :
              AtMost(draw.noise.mag,
                     laplaceProbDistribution(draw.sensitivity, e, draw.random).mag)

\* sensitivity 1, epsilon 1, u = 0.45: the sample is log10(0.1) = -1
C37_SampleIsBase10 ==
    /\ draw.st = "returned"
    /\ draw.sensitivity = 1 /\ draw.epsilon = 1 /\ draw.random = 19
    /\ draw.noise = Signed(TRUE, One)
    /\ draw.noise # LnFormula(1, 1, 19)

\* the datasets with one identity of the passed dataset removed
PassedRemovals ==
    LET items == ItemsFrom(newShadowIterator("own", dataset))
    IN {items[k].value[1] : k \in {k \in DOMAIN items : items[k].value # Undefined}}

\* C38: the shadow datasets an invocation evaluates are the single-identity
\* removals of the dataset passed to it, also when the producer is the
\* newShadowIterator of a view and the invocation is given another dataset
C38_ShadowsOfPassedDataset ==
    \A c \in CallIds :
        \A i \in DOMAIN calls[c].pendingCalculations :
            LET value == calls[c].pendingCalculations[i].value
            IN value # Undefined => value[1] \in PassedRemovals

\* the producer of a view over <<1, 1>>, the invocation given <<0>>: it
\* evaluates a shadow dataset of the view
C38_ShadowOfProducerView ==
    \E c \in CallIds :
        /\ dataset = newArrayView(<<0>>)
        /\ ProducerView = newArrayView(<<1, 1>>)
        /\ calls[c].pendingCalculations # <<>>
        /\ calls[c].pendingCalculations[1].value = Some(newIgnoreIndexArrayView(ProducerView, 0))

\* with the dataset the producer was taken from, the statement holds
C38_SameDataset ==
    dataset = ProducerView => C38_ShadowsOfPassedDataset

\* what the n-th invocation of a fresh handle does at its budget check
OutcomeOfNth(n) ==
    IF BudgetExceeded(PlusTimes(epsilon, n), options.maxEpsilon) THEN "raised" ELSE "admitted"

\* C39: each handle has its own counter, starting at 0: what an invocation of
\* one handle does at the budget check depends on the number of invocations of
\* that handle only, whatever was done with the other handle
C39_HandlesAreIndependent ==
    /\ other.built =>
          /\ other.epsilonSoFar = PlusTimes(epsilon, Len(other.outcomes))
          /\ \A n \in DOMAIN other.outcomes : other.outcomes[n] = OutcomeOfNth(n)
    /\ epsilonSoFar = PlusTimes(epsilon, Cardinality(Started))
    /\ \A c \in Started :
          /\ calls[c].debited = PlusTimes(epsilon, c)
          /\ (calls[c].pc = "raised") = (OutcomeOfNth(c) = "raised")

\* the first handle is exhausted and has raised; the second, built from the
\* same function and options, admits its first invocation afterwards
C39_Witness ==
    /\ \E c \in CallIds : calls[c].pc = "raised"
    /\ other.built
    /\ other.outcomes # <<>>
    /\ other.outcomes[1] = "admitted"
    /\ greaterThan(epsilonSoFar, other.epsilonSoFar)

\* the second handle is exhausted, the first still admits an invocation
C39_WitnessOtherExhausted ==
    /\ other.built
    /\ Len(other.outcomes) >= 2
    /\ other.outcomes[Len(other.outcomes)] = "raised"
    /\ Cardinality(Started) = 1
    /\ calls[1].pc = "done"
    /\ greaterThan(other.epsilonSoFar, epsilonSoFar)

\* C40: an admitted invocation ends: when the iterator is done after finitely
\* many items and every scheduled evaluation settles, the invocation returns a
\* result or raises, for every cap and every order of completion
C40_AdmittedTerminates ==
    \A c \in CallIds :
        (calls[c].pc \in ActivePcs) ~> (calls[c].pc \in {"done", "failed"})

\* an invocation returned after it waited at the cap and its evaluations
\* settled out of order
C40_Witness ==
    \E c \in CallIds :
        /\ calls[c].pc = "done"
        /\ calls[c].pulls = MaxLen
        /\ calls[c].outOfOrder
        /\ Cap = MaxCap

\* an invocation raised because an evaluation failed
C40_WitnessRaises ==
    \E c \in CallIds :
        /\ calls[c].pc = "failed"
        /\ calls[c].pulls >= 2
        /\ HasRejected(calls[c].pendingCalculations)

====
